---- MODULE Spec2Model ----
(***************************************************************************)
(* A model of apt-mirror.py (class AptMirror).                             *)
(*                                                                         *)
(* Part I   - the run lifecycle of several engine processes sharing one    *)
(*            var/ directory: initialize, the lock file, run()'s           *)
(*            try/finally and cleanup (SpecLock, FairLock).                *)
(* Part II  - one engine's pipeline: download_batch, download_file, the    *)
(*            stages of run() (SpecRun).                                   *)
(***************************************************************************)
EXTENDS Integers, Sequences, FiniteSets, TLC

(***************************************************************************)
(* Bounds of the model.                                                    *)
(***************************************************************************)
NumEngines == 2
MaxRetry == 2
MaxFetchRetry == 3
MaxCfgNthreads == 2
MaxPlans == 2
MaxUriCalls == 2
MaxLines == 3
MaxDiffTasks == 2

(***************************************************************************)
(* PART I - run lifecycle and lock file                                    *)
(***************************************************************************)
VARIABLES
  lock,          \* apt-mirror.lock exists in the var/ directory of Config()
  epc,           \* epc[e]: where engine e stands in run()
  lock_file,     \* lock_file[e]: self.lock_file is set (not None)
  session,       \* session[e]: self.session is set (not None)
  acquired,      \* acquired[e]: e executed lock_file.touch()
  err,           \* err[e]: the exception propagating out of e's try block
  http,          \* http[e]: e has issued at least one HTTP request
  afterKill,     \* afterKill[e]: e was started after a lock holder was killed,
                 \*               with no other engine running
  lockAtEnd      \* lockAtEnd[e]: state of the lock file when e's cleanup returned

lockVars == <<lock, epc, lock_file, session, acquired, err, http, afterKill, lockAtEnd>>

\* the state of one engine's pipeline (Part II)
VARIABLES
  config,              \* self.config: nthreads, retry_attempts, verify_checksums,
                       \*              resume_partial_downloads, retry_delay, _tilde,
                       \*              unlink, enable_diffs, diff_algorithm,
                       \*              max_diff_size_ratio (in percent)
  config_file,         \* what the configuration file sets for those keys
  flat,                \* the repository has no components (flat layout)
  upstream,            \* the files the remote server holds, by URL
  release_data,        \* what _parse_release_file returns for the staged Release
  star_packages,       \* the stanzas of a staged Packages file found by
                       \* _process_indexes
  planned,             \* the arguments of the call of _add_url_to_download
                       \* that SpecPlan made last
  rpc,                 \* position of run()
  run_exc,             \* exception propagating out of run()'s try block
  semaphore,           \* value of self.semaphore ("None" before initialize)
  release_urls,        \* getattr(self, 'release_urls', [])
  index_urls,          \* getattr(self, 'index_urls', [])
  local_urls,          \* the local list release_urls / index_urls of the stage
                       \* function that is running or ran last
  stage_log,           \* the stage functions run() has called, in order
  download_queue,      \* self.download_queue
  hashsum_to_files,    \* self.hashsum_to_files, in insertion order
  file_to_hashsums,    \* self.file_to_hashsums
  skip_clean,          \* self.skip_clean
  metadata_checksums,  \* self.metadata_checksums
  batch,               \* the tasks given to the running download_batch
  batch_stage,         \* its stage argument
  progress,            \* its ProgressTracker
  tpc,                 \* tpc[t]: position of download_file(batch[t])
  attempt,             \* attempt[t]: the loop variable of the retry loop
  headers,             \* headers[t]: the Range offset, NoRange, or Unbound
  result,              \* result[t]: what download_file returned
  gets,                \* gets[t]: HTTP GETs issued for batch[t]
  lastTry,             \* lastTry[t]: how the latest try ended
  slept,               \* slept[t]: the delays of the asyncio.sleep calls made
                       \*           for batch[t], in order
  skel,                \* the tree under skel_path
  mirror               \* the tree under mirror_path

\* the argument and the calls of the URI helpers (SpecUri)
VARIABLES
  uri_text,            \* the text the next helper is called with: the argument
                       \* at first, then what the last call returned
  uri_arg,             \* the argument the first call was made with
  uri_calls            \* the helpers called so far, in order

uriVars == <<uri_text, uri_arg, uri_calls>>

\* the argument of _parse_release_content (SpecParse)
VARIABLES
  release_content      \* the text of a Release document, as lines of tokens

parseVars == <<release_content>>

\* the disk under skel_path and mirror_path with its inodes (SpecPromote);
\* skel and mirror are then the bytes seen through the directory entries
VARIABLES
  inodes,              \* inodes[n]: bytes, st_mtime and st_mode of inode n
  skel_ino,            \* the inode of each path under skel_path
  mirror_ino,          \* the inode of each path under mirror_path
  promo_log            \* the calls of _copy_file that _copy_skel_to_mirror
                       \* has made: source, dest and how each ended

promoVars == <<inodes, skel_ino, mirror_ino, promo_log>>

\* the state of _generate_diffs (SpecDiff)
VARIABLES
  tool_installed,      \* the program of config.diff_algorithm is on the PATH
  diff_files,          \* the tree under diff_storage_path: the size of each file
  versions_file,       \* var/file_versions.json: whether it exists, the records
                       \* it holds in order, whether the document is complete
  new_versions,        \* the local new_versions, in insertion order
  diff_log,            \* the calls of _create_diff: diff path, new file's size,
                       \* how the tool ended, the diff's size, the value returned
  diff_pos,            \* the number of tasks the loop has gone through
  dpc                  \* position of _generate_diffs

diffVars == <<tool_installed, diff_files, versions_file, new_versions, diff_log,
              diff_pos, dpc>>

\* the state of the units checked on their own
\* the paths of the engine processes of Part I
VARIABLES
  var_path,            \* var_path[e]: self.config.var_path of engine e
  cfg_var_path,        \* cfg_var_path[e]: what "set var_path" of e's
                       \*                  configuration file names
  lock_path            \* lock_path[e]: the path self.lock_file holds, or None

pathVars == <<var_path, cfg_var_path, lock_path>>

unitVars == <<uriVars, parseVars, promoVars, diffVars, pathVars>>

\* the pipeline's own state
runVarsButUnits ==
  <<config, config_file, flat, upstream, release_data, star_packages, planned,
    rpc, run_exc, semaphore, release_urls, index_urls, local_urls,
    stage_log, download_queue,
    hashsum_to_files, file_to_hashsums, skip_clean, metadata_checksums,
    batch, batch_stage, progress, tpc, attempt, headers, result, gets,
    lastTry, slept, skel, mirror>>

runVars == <<runVarsButUnits, unitVars>>

envVars == <<config_file, flat, upstream, release_data, star_packages, planned>>
tableVars == <<release_urls, index_urls, local_urls, stage_log, download_queue,
               hashsum_to_files,
               file_to_hashsums, skip_clean, metadata_checksums>>
taskVars == <<tpc, attempt, headers, result, gets, lastTry, slept>>

vars == <<lockVars, runVars>>

Engines == 1..NumEngines

\* the awaited calls of run()'s try block, after initialize and parse_config
StageOrder == <<"download_releases", "download_metadata", "process_indexes",
                "download_packages", "copy_skel_to_mirror", "generate_diffs",
                "cleanup_old_files", "run_postmirror">>

Stages == {StageOrder[i] : i \in 1..Len(StageOrder)}

\* the stages whose body calls download_batch
NetworkStages == {"download_releases", "download_metadata", "download_packages"}

StageIndex(s) == CHOOSE i \in 1..Len(StageOrder) : StageOrder[i] = s

AfterStage(s) ==
  IF StageIndex(s) < Len(StageOrder) THEN StageOrder[StageIndex(s) + 1]
  ELSE "session_close"

\* positions of an engine process that is alive inside run()
Running == {"init_dirs", "lock_exists", "lock_touch", "parse_config",
            "session_close", "unlock_exists", "unlock_unlink"} \cup Stages

\* positions after lock acquisition and before the finally block
PastLock == {"parse_config"} \cup Stages

InitLock ==
  /\ lock = FALSE
  /\ epc = [e \in Engines |-> "idle"]
  /\ lock_file = [e \in Engines |-> FALSE]
  /\ session = [e \in Engines |-> FALSE]
  /\ acquired = [e \in Engines |-> FALSE]
  /\ err = [e \in Engines |-> "none"]
  /\ http = [e \in Engines |-> FALSE]
  /\ afterKill = [e \in Engines |-> FALSE]
  /\ lockAtEnd = [e \in Engines |-> "unset"]

\* asyncio.run(main()): a process enters run()
Start(e) ==
  /\ epc[e] = "idle"
  /\ epc' = [epc EXCEPT ![e] = "init_dirs"]
  /\ afterKill' = [afterKill EXCEPT ![e] =
        /\ \E a \in Engines : epc[a] = "killed_holding"
        /\ \A a \in Engines \ {e} : epc[a] \notin Running]
  /\ UNCHANGED <<lock, lock_file, session, acquired, err, http, lockAtEnd>>
  /\ UNCHANGED runVars

\* initialize, up to the assignment of self.lock_file: the directories are
\* made (an OSError leaves run() through the finally block), the session and
\* the semaphore are created
InitDirs(e) ==
  /\ epc[e] = "init_dirs"
  /\ \E mkdir_ok \in BOOLEAN :
       IF mkdir_ok
       THEN /\ session' = [session EXCEPT ![e] = TRUE]
            /\ lock_file' = [lock_file EXCEPT ![e] = TRUE]
            /\ lock_path' = [lock_path EXCEPT ![e] = var_path[e] \o <<"apt-mirror.lock">>]
            /\ epc' = [epc EXCEPT ![e] = "lock_exists"]
            /\ err' = err
       ELSE /\ err' = [err EXCEPT ![e] = "OSError"]
            /\ epc' = [epc EXCEPT ![e] = "session_close"]
            /\ UNCHANGED <<session, lock_file, lock_path>>
  /\ UNCHANGED <<lock, acquired, http, afterKill, lockAtEnd>>
  /\ UNCHANGED <<runVarsButUnits, uriVars, parseVars, promoVars, diffVars, var_path,
                 cfg_var_path>>

\* if self.lock_file.exists(): raise RuntimeError(...)
LockExists(e) ==
  /\ epc[e] = "lock_exists"
  /\ IF lock
     THEN /\ err' = [err EXCEPT ![e] = "AlreadyRunning"]
          /\ epc' = [epc EXCEPT ![e] = "session_close"]
     ELSE /\ epc' = [epc EXCEPT ![e] = "lock_touch"]
          /\ err' = err
  /\ UNCHANGED <<lock, lock_file, session, acquired, http, afterKill, lockAtEnd>>
  /\ UNCHANGED runVars

\* self.lock_file.touch(): succeeds whether or not the file exists
LockTouch(e) ==
  /\ epc[e] = "lock_touch"
  /\ lock' = TRUE
  /\ acquired' = [acquired EXCEPT ![e] = TRUE]
  /\ epc' = [epc EXCEPT ![e] = "parse_config"]
  /\ UNCHANGED <<lock_file, session, err, http, afterKill, lockAtEnd>>
  /\ UNCHANGED runVars

\* parse_config: FileNotFoundError when the configuration file is missing;
\* else its set lines are applied (_set_config)
ParseConfig(e) ==
  /\ epc[e] = "parse_config"
  /\ \E config_exists \in BOOLEAN :
       IF config_exists
       THEN /\ epc' = [epc EXCEPT ![e] = StageOrder[1]]
            /\ var_path' = [var_path EXCEPT ![e] = cfg_var_path[e]]
            /\ err' = err
       ELSE /\ err' = [err EXCEPT ![e] = "FileNotFound"]
            /\ epc' = [epc EXCEPT ![e] = "session_close"]
            /\ var_path' = var_path
  /\ UNCHANGED <<lock, lock_file, session, acquired, http, afterKill, lockAtEnd>>
  /\ UNCHANGED <<runVarsButUnits, uriVars, parseVars, promoVars, diffVars,
                 cfg_var_path, lock_path>>

\* one awaited stage of run(): it returns, having issued HTTP requests if it
\* is a download stage, or it raises
Stage(e) ==
  /\ epc[e] \in Stages
  /\ \E raised \in BOOLEAN, requested \in BOOLEAN :
       /\ requested => epc[e] \in NetworkStages
       /\ http' = [http EXCEPT ![e] = @ \/ requested]
       /\ IF raised
          THEN /\ err' = [err EXCEPT ![e] = "StageError"]
               /\ epc' = [epc EXCEPT ![e] = "session_close"]
          ELSE /\ epc' = [epc EXCEPT ![e] = AfterStage(epc[e])]
               /\ err' = err
  /\ UNCHANGED <<lock, lock_file, session, acquired, afterKill, lockAtEnd>>
  /\ UNCHANGED runVars

\* SIGINT: the main task is cancelled at a suspension point of a stage
Interrupt(e) ==
  /\ epc[e] \in Stages
  /\ err' = [err EXCEPT ![e] = "Interrupt"]
  /\ epc' = [epc EXCEPT ![e] = "session_close"]
  /\ UNCHANGED <<lock, lock_file, session, acquired, http, afterKill, lockAtEnd>>
  /\ UNCHANGED runVars

\* cleanup, first statement: if self.session: await self.session.close()
SessionClose(e) ==
  /\ epc[e] = "session_close"
  /\ session' = [session EXCEPT ![e] = FALSE]
  /\ epc' = [epc EXCEPT ![e] = "unlock_exists"]
  /\ UNCHANGED <<lock, lock_file, acquired, err, http, afterKill, lockAtEnd>>
  /\ UNCHANGED runVars

\* mutant: cleanup that never removes the lock file
UnlockExistsNoUnlink(e) ==
  /\ epc[e] = "unlock_exists"
  /\ epc' = [epc EXCEPT ![e] = "done"]
  /\ lockAtEnd' = [lockAtEnd EXCEPT ![e] = IF lock THEN "present" ELSE "absent"]
  /\ UNCHANGED <<lock, lock_file, session, acquired, err, http, afterKill>>
  /\ UNCHANGED runVars

\* cleanup, second statement, the test: if self.lock_file and self.lock_file.exists()
UnlockExists(e) ==
  /\ epc[e] = "unlock_exists"
  /\ IF lock_file[e] /\ lock
     THEN /\ epc' = [epc EXCEPT ![e] = "unlock_unlink"]
          /\ lockAtEnd' = lockAtEnd
     ELSE /\ epc' = [epc EXCEPT ![e] = "done"]
          /\ lockAtEnd' = [lockAtEnd EXCEPT ![e] = IF lock THEN "present" ELSE "absent"]
  /\ UNCHANGED <<lock, lock_file, session, acquired, err, http, afterKill>>
  /\ UNCHANGED runVars

\* cleanup, second statement, the body: self.lock_file.unlink()
\* (FileNotFoundError when another process removed the file in between)
UnlockUnlink(e) ==
  /\ epc[e] = "unlock_unlink"
  /\ lock' = FALSE
  /\ err' = [err EXCEPT ![e] = IF lock \/ @ # "none" THEN @ ELSE "FileNotFound"]
  /\ epc' = [epc EXCEPT ![e] = "done"]
  /\ lockAtEnd' = [lockAtEnd EXCEPT ![e] = "absent"]
  /\ UNCHANGED <<lock_file, session, acquired, http, afterKill>>
  /\ UNCHANGED runVars

\* SIGKILL: the process ends where it stands, no finally block runs
\* ("killed_holding": it had acquired the lock and not yet entered cleanup)
Kill(e) ==
  /\ epc[e] \in Running
  /\ epc' = [epc EXCEPT ![e] = IF epc[e] \in PastLock THEN "killed_holding" ELSE "killed"]
  /\ UNCHANGED <<lock, lock_file, session, acquired, err, http, afterKill, lockAtEnd>>
  /\ UNCHANGED runVars

\* the steps the event loop itself takes for engine e
EngineStep(e) ==
  \/ InitDirs(e)
  \/ LockExists(e)
  \/ LockTouch(e)
  \/ ParseConfig(e)
  \/ Stage(e)
  \/ SessionClose(e)
  \/ UnlockExists(e)
  \/ UnlockUnlink(e)

NextLock ==
  \E e \in Engines :
    \/ Start(e)
    \/ EngineStep(e)
    \/ Interrupt(e)
    \/ Kill(e)


(***************************************************************************)
(* PART II - one engine: download_file, download_batch, the stages         *)
(*                                                                         *)
(* Paths and URLs are strings split at '/': tuples of segments.  The URL   *)
(* "http://r/d/f" is <<"http:", "", "r", "d", "f">>; an '@' is a token of   *)
(* its own with no slash around it: "u@r/d" is <<"u", "@", "r", "d">>.     *)
(* A file's content is                                                     *)
(* a sequence of bytes; the trees skel/ and mirror/ are functions from the *)
(* paths that exist to contents.  None is the empty tuple for paths, ""    *)
(* for digests, "None" for hash types.                                     *)
(* Only the binary repository loop of each stage is modelled, for one      *)
(* repository (self.sources is empty).                                     *)
(***************************************************************************)

NoPath == <<>>
NoHash == ""

\* no call of _add_url_to_download made yet
NoPlan == [url |-> NoPath, size |-> 0, strongest_hash |-> "None",
           hash_type |-> "None", hashsum |-> NoHash]
NoRange == -1
Unbound == -2

\* Config's defaults
DefaultNthreads == 20
DefaultRetryAttempts == 5
DefaultRetryDelay == 2
DefaultMaxDiffSizeRatio == 50

DefaultConfig ==
  [nthreads |-> DefaultNthreads, retry_attempts |-> DefaultRetryAttempts,
   verify_checksums |-> TRUE, resume_partial_downloads |-> TRUE,
   retry_delay |-> DefaultRetryDelay, _tilde |-> FALSE, unlink |-> FALSE,
   enable_diffs |-> TRUE, diff_algorithm |-> "xdelta3",
   max_diff_size_ratio |-> DefaultMaxDiffSizeRatio]

\* the configurations that set the four keys to values of the given sets and
\* leave the other keys at their defaults
Configs(nthreads, retry_attempts, verify_checksums, resume_partial_downloads) ==
  {[DefaultConfig EXCEPT !.nthreads = n, !.retry_attempts = r,
                         !.verify_checksums = v, !.resume_partial_downloads = p] :
     n \in nthreads, r \in retry_attempts, v \in verify_checksums,
     p \in resume_partial_downloads}

\* HashType, strongest first
HashStrength == <<"SHA512", "SHA256", "SHA1", "MD5Sum">>

\* the hex digest of a content under an algorithm
Hash(hash_type, content) == hash_type \o ":" \o ToString(content)

\* mutant: a verification that accepts every file
VerifyChecksumAlways(content, hash_type, expected) == TRUE

\* _verify_checksum: hash_obj.hexdigest() == expected
VerifyChecksum(content, hash_type, expected) == Hash(hash_type, content) = expected

Scheme == "http:"
Url(path) == <<Scheme, "">> \o path

At == "@"

\* the text starts with the scheme, a colon and two slashes
HasSchemePrefix(uri) ==
  Len(uri) >= 3 /\ uri[1] = Scheme /\ uri[2] = "" /\ uri[3] # At

\* str.replace('~', '%7E') on one segment; "~u" is the model's only segment
\* with a tilde
TildeEncode(seg) == IF seg = "~u" THEN "%7Eu" ELSE seg

\* if self.config._tilde: text = text.replace('~', '%7E')
ReplaceTilde(text) ==
  IF config._tilde THEN [i \in 1..Len(text) |-> TildeEncode(text[i])] ELSE text

\* re.sub(r'^[^@]+@', '', uri): the text up to and including the first '@'
\* is removed when at least one character stands before it
RemoveAuth(uri) ==
  LET ats == {i \in 1..Len(uri) : uri[i] = At}
      first == CHOOSE i \in ats : \A j \in ats : i <= j
  IN IF ats = {} THEN uri
     ELSE IF first = 1 \/ (first = 2 /\ uri[1] = "") THEN uri
     ELSE SubSeq(uri, first + 1, Len(uri))

\* _sanitize_uri: re.sub(r'^\w+://', '', uri), re.sub(r'^[^@]+@', '', uri),
\* the tilde replacement
SanitizeUri(uri) ==
  ReplaceTilde(RemoveAuth(IF HasSchemePrefix(uri) THEN SubSeq(uri, 3, Len(uri))
                          ELSE uri))

\* re.sub(r'/+', '/', path): an empty segment between two slashes goes, and
\* with it one of the two slashes
RECURSIVE CollapseSlashes(_, _)
CollapseSlashes(path, i) ==
  IF i > Len(path) THEN <<>>
  ELSE IF /\ path[i] = ""
          /\ i > 1 /\ path[i - 1] # At
          /\ i < Len(path) /\ path[i + 1] # At
       THEN CollapseSlashes(path, i + 1)
       ELSE <<path[i]>> \o CollapseSlashes(path, i + 1)

\* _remove_double_slashes: re.sub(r'/+', '/', path) makes every run of
\* slashes one slash, the two after the scheme included; the second re.sub
\* replaces a match by itself; then the tilde replacement
RemoveDoubleSlashes(path) == ReplaceTilde(CollapseSlashes(path, 1))

\* os.path.dirname
Dirname(path) == IF path = <<>> THEN <<>> ELSE SubSeq(path, 1, Len(path) - 1)

\* DownloadTask(...)
DownloadTask(url, size, hash_type, hashsum, canonical_path, hash_path, stage) ==
  [url |-> url, size |-> size, hash_type |-> hash_type, hashsum |-> hashsum,
   canonical_path |-> canonical_path, hash_path |-> hash_path, stage |-> stage]

\* download_file, "Determine local path"
LocalPath(task) ==
  IF task.hash_path # NoPath THEN task.hash_path
  ELSE IF task.canonical_path # NoPath THEN task.canonical_path
  ELSE SanitizeUri(task.url)

Exists(tree, path) == path \in DOMAIN tree
WriteFile(tree, path, content) == (path :> content) @@ tree
Unlink(tree, path) == [q \in DOMAIN tree \ {path} |-> tree[q]]

\* ProgressTracker.update(bytes, success), the file counters
ProgressUpdate(p, success) ==
  IF success THEN [p EXCEPT !.completed_files = @ + 1]
  ELSE [p EXCEPT !.failed_files = @ + 1]

\* response.raise_for_status() raises for these; the codes the server of the
\* model answers with, 0 standing for a transport error without a response
ErrorStatuses == {0, 404, 408, 429, 500}

\* 4xx other than 408 and 429
Permanent(status) == status \in 400..499 /\ status \notin {408, 429}

\* the responses a GET of url with the given Range offset can get: an error,
\* or what an HTTP server holding upstream[url] answers
Responses(url, range) ==
  [status : ErrorStatuses, body : {<<>>}]
  \cup (IF ~Exists(upstream, url) THEN {}
        ELSE IF range = NoRange THEN {[status |-> 200, body |-> upstream[url]]}
        ELSE IF range < Len(upstream[url])
             THEN {[status |-> 206,
                    body |-> SubSeq(upstream[url], range + 1, Len(upstream[url]))]}
        ELSE {[status |-> 416, body |-> <<>>]})

BatchRunning == rpc \in {"release_batch", "index_batch", "archive_batch", "fetch"}

Tasks == 1..Len(batch)

\* mutant: a mirror short-circuit that stages nothing
CopyFromMirrorSkipped(tree, local_path, content) == tree

\* shutil.copy2(mirror_path, local_path) of the mirror short-circuit (when
\* local_path is the mirror file itself it holds that content already)
CopyFromMirror(tree, local_path, content) == WriteFile(tree, local_path, content)

\* mutant: a Range header that always asks from offset zero
ResumeHeadersFromZero(length) == 0

\* headers = {"Range": f"bytes={stat.st_size}-"}: the offset asked for
ResumeHeaders(length) == length

\* st_mtime of a file written now
Now == 3

\* local_path.samefile(mirror_path): both names are links to one inode.  The
\* inode table holds the files that promotion linked or copied (_copy_file);
\* a staged path without an entry in skel_ino is a file with a single link.
SameFile(local_path, mirror_path) ==
  /\ local_path \in DOMAIN skel_ino
  /\ mirror_path \in DOMAIN mirror_ino
  /\ skel_ino[local_path] = mirror_ino[mirror_path]

\* the disk after download_file made tree of skel/: an unlink of local_path
\* removes that name from its inode; a write through local_path (wrote) goes
\* to the inode the name stands for, and shows through every name in
\* mirror/ that is a link to it
HardLinks(tree, local_path, wrote) ==
  IF local_path \notin DOMAIN skel_ino
  THEN [inodes |-> inodes, skel_ino |-> skel_ino, mirror |-> mirror]
  ELSE IF ~Exists(tree, local_path)
  THEN [inodes |-> inodes, skel_ino |-> Unlink(skel_ino, local_path), mirror |-> mirror]
  ELSE IF ~wrote
  THEN [inodes |-> inodes, skel_ino |-> skel_ino, mirror |-> mirror]
  ELSE LET ino == skel_ino[local_path] IN
       [inodes |-> [inodes EXCEPT ![ino] = [@ EXCEPT !.bytes = tree[local_path],
                                                     !.mtime = Now]],
        skel_ino |-> skel_ino,
        mirror |-> [q \in DOMAIN mirror |->
                      IF q \in DOMAIN mirror_ino /\ mirror_ino[q] = ino
                      THEN tree[local_path] ELSE mirror[q]]]

\* download_file from the mirror check to the start of the retry loop:
\* ret is "True" when the function returns before the loop
PreCheck(task) ==
  LET local_path == LocalPath(task)
      mirror_path == task.canonical_path
      checked == task.hashsum # NoHash /\ config.verify_checksums
      mirror_ok ==
        /\ mirror_path # NoPath
        /\ Exists(mirror, mirror_path)
        /\ IF checked
           THEN VerifyChecksum(mirror[mirror_path], task.hash_type, task.hashsum)
           ELSE task.size > 0 /\ Len(mirror[mirror_path]) = task.size
  IN
  IF mirror_ok
  THEN [ret |-> "True", headers |-> NoRange, from_mirror |-> TRUE,
        skel |-> CopyFromMirror(skel, local_path, mirror[mirror_path])]
  ELSE IF Exists(skel, local_path) /\ config.resume_partial_downloads
  THEN IF Len(skel[local_path]) = task.size
       THEN IF checked
            THEN IF VerifyChecksum(skel[local_path], task.hash_type, task.hashsum)
                 THEN [ret |-> "True", headers |-> NoRange, from_mirror |-> FALSE, skel |-> skel]
                 ELSE [ret |-> "loop", headers |-> Unbound, from_mirror |-> FALSE, skel |-> skel]
            ELSE [ret |-> "True", headers |-> NoRange, from_mirror |-> FALSE, skel |-> skel]
       ELSE IF Len(skel[local_path]) < task.size
       THEN [ret |-> "loop", headers |-> ResumeHeaders(Len(skel[local_path])),
             from_mirror |-> FALSE, skel |-> skel]
       ELSE [ret |-> "loop", headers |-> NoRange, from_mirror |-> FALSE, skel |-> Unlink(skel, local_path)]
  ELSE [ret |-> "loop", headers |-> NoRange, from_mirror |-> FALSE, skel |-> skel]

\* download_file enters: the semaphore is acquired, the checks before the loop
\* run; it returns True there, or starts the loop, or (an empty range) leaves
\* the loop at once and returns None without a tracker update
Enter(t) ==
  /\ BatchRunning
  /\ t \in Tasks
  /\ tpc[t] = "created"
  /\ semaphore > 0
  /\ LET pre == PreCheck(batch[t])
         local_path == LocalPath(batch[t])
         disk == HardLinks(pre.skel, local_path,
                           /\ pre.from_mirror
                           /\ ~SameFile(local_path, batch[t].canonical_path))
     IN
       /\ skel' = pre.skel
       /\ mirror' = disk.mirror
       /\ inodes' = disk.inodes
       /\ skel_ino' = disk.skel_ino
       /\ headers' = [headers EXCEPT ![t] = pre.headers]
       /\ IF pre.ret = "True"
          THEN /\ tpc' = [tpc EXCEPT ![t] = "returned"]
               /\ result' = [result EXCEPT ![t] = "True"]
               /\ progress' = ProgressUpdate(progress, TRUE)
               /\ semaphore' = semaphore
          ELSE IF config.retry_attempts <= 0
          THEN /\ tpc' = [tpc EXCEPT ![t] = "returned"]
               /\ result' = [result EXCEPT ![t] = "None"]
               /\ progress' = progress
               /\ semaphore' = semaphore
          ELSE /\ tpc' = [tpc EXCEPT ![t] = "ready"]
               /\ result' = result
               /\ progress' = progress
               /\ semaphore' = semaphore - 1
  /\ UNCHANGED <<attempt, gets, lastTry, slept, batch, batch_stage, rpc, run_exc,
                 config, envVars, tableVars, lockVars, mirror_ino, promo_log,
                 uriVars, parseVars, diffVars, pathVars>>

\* session.get(url, headers=headers) raises before any request is sent:
\* UnboundLocalError when headers was never assigned, InvalidURL when the URL
\* has no host
NoRequest(task, hdrs) ==
  IF hdrs = Unbound THEN "unbound"
  ELSE IF ~HasSchemePrefix(task.url) THEN "invalid_url"
  ELSE "none"

\* mutant: an outer except clause that lets the exception leave download_file
OuterExceptReraise(p) == [result |-> "raised", progress |-> p]

\* the outer except clause: progress.update(0, False); return False
OuterExcept(p) == [result |-> "False", progress |-> ProgressUpdate(p, FALSE)]

\* mutant: a delay counted from the loop variable, which starts at zero
BackoffFromZero(a) == config.retry_delay * a

\* asyncio.sleep(self.config.retry_delay * (attempt + 1))
Backoff(a) == config.retry_delay * (a + 1)

\* mutant: the test of the except clause with the bound off by one
LastAttemptOffByOne(a) == ~(a < config.retry_attempts)

\* except Exception: if attempt < retry_attempts - 1: sleep ... else: raise
LastAttempt(a) == ~(a < config.retry_attempts - 1)

\* one pass of the retry loop for batch[t]: the GET, the write in mode 'ab' or
\* 'wb', the size and checksum tests, and then the return, the sleep before
\* the next pass, or the raise into the outer except clause.  A loop
\* whose range ends without return or raise falls through to the end of the
\* function (None, no tracker update).
Try(t) ==
  /\ BatchRunning
  /\ t \in Tasks
  /\ tpc[t] = "ready"
  /\ LET task == batch[t]
         local_path == LocalPath(task)
     IN
     \E resp \in IF NoRequest(task, headers[t]) # "none"
                 THEN {[status |-> -1, body |-> <<>>]}
                 ELSE Responses(task.url, headers[t]) :
       LET written ==
             IF resp.status \notin {200, 206} THEN skel
             ELSE IF headers[t] # NoRange
             THEN WriteFile(skel, local_path,
                    (IF Exists(skel, local_path) THEN skel[local_path] ELSE <<>>)
                      \o resp.body)
             ELSE WriteFile(skel, local_path, resp.body)
           class ==
             IF resp.status = -1 THEN NoRequest(task, headers[t])
             ELSE IF resp.status \in ErrorStatuses \cup {416}
             THEN (IF Permanent(resp.status) THEN "permanent" ELSE "transient")
             ELSE IF Len(written[local_path]) # task.size THEN "size_mismatch"
             ELSE IF /\ task.hashsum # NoHash
                     /\ config.verify_checksums
                     /\ ~VerifyChecksum(written[local_path], task.hash_type, task.hashsum)
             THEN "checksum_mismatch"
             ELSE "ok"
           disk == HardLinks(written, local_path, resp.status \in {200, 206})
       IN
       /\ skel' = written
       /\ mirror' = disk.mirror
       /\ inodes' = disk.inodes
       /\ skel_ino' = disk.skel_ino
       /\ gets' = [gets EXCEPT ![t] = IF resp.status = -1 THEN @ ELSE @ + 1]
       /\ lastTry' = [lastTry EXCEPT ![t] = class]
       /\ IF class = "ok"
          THEN /\ tpc' = [tpc EXCEPT ![t] = "returned"]
               /\ result' = [result EXCEPT ![t] = "True"]
               /\ progress' = ProgressUpdate(progress, TRUE)
               /\ semaphore' = semaphore + 1
               /\ attempt' = attempt
               /\ slept' = slept
          ELSE IF ~LastAttempt(attempt[t])
          THEN /\ attempt' = [attempt EXCEPT ![t] = @ + 1]
               /\ slept' = [slept EXCEPT ![t] = Append(@, Backoff(attempt[t]))]
               /\ IF attempt[t] + 1 < config.retry_attempts
                  THEN UNCHANGED <<tpc, result, semaphore>>
                  ELSE /\ tpc' = [tpc EXCEPT ![t] = "returned"]
                       /\ result' = [result EXCEPT ![t] = "None"]
                       /\ semaphore' = semaphore + 1
               /\ progress' = progress
          ELSE /\ tpc' = [tpc EXCEPT ![t] = "returned"]
               /\ result' = [result EXCEPT ![t] = OuterExcept(progress).result]
               /\ progress' = OuterExcept(progress).progress
               /\ semaphore' = semaphore + 1
               /\ attempt' = attempt
               /\ slept' = slept
  /\ UNCHANGED <<headers, batch, batch_stage, rpc, run_exc,
                 config, envVars, tableVars, lockVars, mirror_ino, promo_log,
                 uriVars, parseVars, diffVars, pathVars>>

\* the state a call of download_batch(tasks, stage) starts from
NewProgress(tasks) ==
  [total_files |-> Len(tasks), completed_files |-> 0, failed_files |-> 0]

NewTaskState(tasks, value) == [t \in 1..Len(tasks) |-> value]

(***************************************************************************)
(* The stages of run(), for one binary repository                          *)
(*   deb-amd64 http://r d [main]                                           *)
(* whose component list is empty when flat holds.  The text of a staged    *)
(* Release file and of a staged Packages file is not modelled: what the    *)
(* parsers make of it is the input release_data, star_packages.            *)
(***************************************************************************)
RepoUri == Url(<<"r">>)
Distribution == "d"
Component == "main"
Arch == "amd64"

\* dist_uri of _download_releases and _download_metadata, without the
\* trailing slash
DistUri ==
  IF flat THEN RepoUri \o <<Distribution>>
  ELSE RepoUri \o <<"dists", Distribution>>

ReleaseNames == <<"InRelease", "Release", "Release.gpg">>

\* the extensions the index patterns accept
Extensions == {"", ".gz", ".bz2", ".xz"}

\* the file names the patterns of a flat repository match:
\* ^Packages(\.(gz|bz2|xz))?$ and ^Contents-(\.(gz|bz2|xz))?$
FlatIndexNames ==
  {<<"Packages" \o ext>> : ext \in Extensions}
  \cup {<<"Contents-" \o ext>> : ext \in Extensions}

\* a defaultdict(list) in insertion order: d[key].append(value)
DictAppend(d, key, value) ==
  IF \E i \in 1..Len(d) : d[i].key = key
  THEN [i \in 1..Len(d) |->
          IF d[i].key = key THEN [d[i] EXCEPT !.files = Append(@, value)]
          ELSE d[i]]
  ELSE Append(d, [key |-> key, files |-> <<value>>])

\* d.get(key, [])
DictGet(d, key) ==
  IF \E i \in 1..Len(d) : d[i].key = key
  THEN d[CHOOSE i \in 1..Len(d) : d[i].key = key].files
  ELSE <<>>

\* the tables _add_url_to_download writes
Tables ==
  [download_queue |-> download_queue, hashsum_to_files |-> hashsum_to_files,
   file_to_hashsums |-> file_to_hashsums, skip_clean |-> skip_clean]

\* _add_url_to_download(url, size, strongest_hash, hash_type, hashsum)
AddUrlToDownload(q, url0, size, strongest_hash, hash_type, hashsum) ==
  LET url == RemoveDoubleSlashes(url0)
      canonical_path == SanitizeUri(url)
      hash_dir == <<"by-hash",
                    IF hash_type # "None" THEN hash_type ELSE strongest_hash>>
      hash_url == Dirname(url) \o hash_dir \o <<hashsum>>
      hash_path == Dirname(canonical_path) \o hash_dir \o <<hashsum>>
  IN
  IF hashsum # NoHash /\ strongest_hash # "None"
  THEN IF hash_type = strongest_hash
       THEN [q EXCEPT
               !.skip_clean = @ \cup {canonical_path, hash_path},
               !.hashsum_to_files = DictAppend(@, hash_path, canonical_path),
               !.download_queue =
                  Append(@, DownloadTask(hash_url, size, hash_type, hashsum,
                                         canonical_path, hash_path, "archive"))]
       ELSE [q EXCEPT
               !.skip_clean = @ \cup {canonical_path, hash_path},
               !.file_to_hashsums = DictAppend(@, canonical_path, hash_path)]
  ELSE [q EXCEPT
          !.skip_clean = @ \cup {canonical_path},
          !.download_queue =
             Append(@, DownloadTask(url, size, "None", NoHash,
                                    canonical_path, NoPath, "archive"))]

\* download_batch(tasks, stage) up to the gather: a new tracker, one
\* download_file coroutine per task
StartBatch(tasks, stage) ==
  /\ batch' = tasks
  /\ batch_stage' = stage
  /\ progress' = NewProgress(tasks)
  /\ tpc' = NewTaskState(tasks, "created")
  /\ attempt' = NewTaskState(tasks, 0)
  /\ headers' = NewTaskState(tasks, NoRange)
  /\ result' = NewTaskState(tasks, "none")
  /\ gets' = NewTaskState(tasks, 0)
  /\ lastTry' = NewTaskState(tasks, "none")
  /\ slept' = NewTaskState(tasks, <<>>)

\* initialize: self.semaphore = asyncio.Semaphore(self.config.nthreads)
\* (the lock file steps of initialize are those of Part I)
Initialize ==
  /\ rpc = "initialize"
  /\ semaphore' = config.nthreads
  /\ rpc' = "parse_config"
  /\ UNCHANGED <<config, envVars, run_exc, tableVars, batch, batch_stage, progress,
                 taskVars, skel, mirror, lockVars, unitVars>>

\* parse_config: _set_config for every set line of the configuration file
SetConfig ==
  /\ rpc = "parse_config"
  /\ config' = config_file
  /\ rpc' = "download_releases"
  /\ UNCHANGED <<envVars, run_exc, semaphore, tableVars, batch, batch_stage,
                 progress, taskVars, skel, mirror, lockVars, unitVars>>

\* _download_releases up to the await of download_batch
DownloadReleases ==
  /\ rpc = "download_releases"
  /\ LET urls == [i \in 1..Len(ReleaseNames) |-> DistUri \o <<ReleaseNames[i]>>]
         tasks == [i \in 1..Len(urls) |->
                     DownloadTask(urls[i], 0, "None", NoHash,
                                  SanitizeUri(urls[i]), NoPath, "release")]
     IN /\ StartBatch(tasks, "release")
        /\ local_urls' = urls
  /\ stage_log' = Append(stage_log, "download_releases")
  /\ rpc' = "release_batch"
  /\ UNCHANGED <<config, envVars, run_exc, semaphore, release_urls, index_urls,
                 download_queue, hashsum_to_files, file_to_hashsums, skip_clean,
                 metadata_checksums, skel, mirror, lockVars, unitVars>>

\* mutant: a copy that creates the destination and drops the bytes
Copy2Empty(tree, content, dest) == WriteFile(tree, dest, <<>>)

\* shutil.copy2(source, dest) in _copy_hashsum_files, content being the
\* source's bytes
Copy2(tree, content, dest) == WriteFile(tree, dest, content)

\* _copy_hashsum_files, the innermost loop: copy2(source, other_dest)
RECURSIVE CopyToOthers(_, _, _)
CopyToOthers(tree, content, others) ==
  IF others = <<>> THEN tree
  ELSE CopyToOthers(Copy2(tree, content, Head(others)), content, Tail(others))

\* _copy_hashsum_files, the loop over canonical_paths
RECURSIVE CopyToCanonicals(_, _, _)
CopyToCanonicals(tree, source, canonical_paths) ==
  IF canonical_paths = <<>> THEN tree
  ELSE LET dest == Head(canonical_paths)
           copied == Copy2(tree, tree[source], dest)
       IN CopyToCanonicals(
            CopyToOthers(copied, copied[source], DictGet(file_to_hashsums, dest)),
            source, Tail(canonical_paths))

\* _copy_hashsum_files, the loop over self.hashsum_to_files.items()
RECURSIVE CopyHashsumFiles(_, _)
CopyHashsumFiles(tree, entries) ==
  IF entries = <<>> THEN tree
  ELSE LET entry == Head(entries) IN
       CopyHashsumFiles(
         IF Exists(tree, entry.key) THEN CopyToCanonicals(tree, entry.key, entry.files)
         ELSE tree,
         Tail(entries))

\* mutant: a download_batch that does not wait for its coroutines
BatchDrainedNoWait == TRUE

\* await asyncio.gather(*download_tasks, return_exceptions=True) returns
BatchDrained == \A t \in Tasks : tpc[t] = "returned"

\* download_batch after the gather (_copy_hashsum_files) and the statements
\* of the stage function after the await
DownloadBatchDone ==
  /\ rpc \in {"release_batch", "index_batch", "archive_batch"}
  /\ BatchDrained
  /\ skel' = CopyHashsumFiles(skel, hashsum_to_files)
  /\ release_urls' = IF rpc = "release_batch" THEN local_urls ELSE release_urls
  /\ index_urls' = IF rpc = "index_batch" THEN local_urls ELSE index_urls
  /\ rpc' = CASE rpc = "release_batch" -> "download_metadata"
              [] rpc = "index_batch" -> "process_indexes"
              [] rpc = "archive_batch" -> "copy_skel_to_mirror"
  /\ UNCHANGED <<config, envVars, run_exc, semaphore, local_urls, stage_log,
                 download_queue, hashsum_to_files, file_to_hashsums, skip_clean,
                 metadata_checksums, batch, batch_stage, progress, taskVars,
                 mirror, lockVars, unitVars>>

\* _download_metadata, "Determine strongest hash"
StrongestHash(data) ==
  IF data.acquire_by_hash /\ \E i \in 1..Len(HashStrength) : HashStrength[i] \in data.hashes
  THEN HashStrength[CHOOSE i \in 1..Len(HashStrength) :
                      /\ HashStrength[i] \in data.hashes
                      /\ \A j \in 1..(i - 1) : HashStrength[j] \notin data.hashes]
  ELSE "None"

\* _download_metadata, the loop over release_data['files'] of a flat
\* repository: st holds the locals tasks and index_urls, metadata_checksums
\* and the tables of _add_url_to_download
RECURSIVE SelectIndexFiles(_, _, _)
SelectIndexFiles(files, strongest_hash, st) ==
  IF files = <<>> THEN st
  ELSE
    LET file_info == Head(files)
        url == DistUri \o file_info.filename
        canonical == SanitizeUri(url)
        next ==
          IF file_info.filename \notin FlatIndexNames THEN st
          ELSE IF strongest_hash # "None" /\ file_info.hashsum # NoHash
          THEN [st EXCEPT
                  !.index_urls = Append(@, url),
                  !.metadata_checksums =
                     (canonical :> <<strongest_hash, file_info.hashsum, file_info.size>>) @@ @,
                  !.tables = AddUrlToDownload(@, url, file_info.size, strongest_hash,
                                              file_info.hash_type, file_info.hashsum)]
          ELSE [st EXCEPT
                  !.index_urls = Append(@, url),
                  !.metadata_checksums =
                     (canonical :> <<"None", NoHash, file_info.size>>) @@ @,
                  !.tasks = Append(@, DownloadTask(url, file_info.size, "None", NoHash,
                                                   canonical, NoPath, "index"))]
    IN SelectIndexFiles(Tail(files), strongest_hash, next)

\* _download_metadata up to the await of download_batch, or to its end when
\* there is no task.  With components, the first entry of release_data['files']
\* evaluates the patterns that name the undefined variable comp: NameError.
DownloadMetadata ==
  /\ rpc = "download_metadata"
  /\ stage_log' = Append(stage_log, "download_metadata")
  /\ LET release_exists ==
           \/ Exists(skel, SanitizeUri(DistUri \o <<"Release">>))
           \/ Exists(skel, SanitizeUri(DistUri \o <<"InRelease">>))
         files == IF release_exists THEN release_data.files ELSE <<>>
         st == SelectIndexFiles(files, StrongestHash(release_data),
                 [tasks |-> <<>>, index_urls |-> <<>>,
                  metadata_checksums |-> metadata_checksums, tables |-> Tables])
     IN
     IF ~flat /\ files # <<>>
     THEN /\ run_exc' = "NameError"
          /\ rpc' = "cleanup"
          /\ UNCHANGED <<local_urls, download_queue, hashsum_to_files,
                         file_to_hashsums, skip_clean, metadata_checksums, batch,
                         batch_stage, progress, taskVars>>
     ELSE /\ local_urls' = st.index_urls
          /\ metadata_checksums' = st.metadata_checksums
          /\ download_queue' = st.tables.download_queue
          /\ hashsum_to_files' = st.tables.hashsum_to_files
          /\ file_to_hashsums' = st.tables.file_to_hashsums
          /\ skip_clean' = st.tables.skip_clean
          /\ run_exc' = run_exc
          /\ IF st.tasks # <<>>
             THEN /\ StartBatch(st.tasks, "index")
                  /\ rpc' = "index_batch"
             ELSE /\ rpc' = "process_indexes"
                  /\ UNCHANGED <<batch, batch_stage, progress, taskVars>>
  /\ UNCHANGED <<config, envVars, semaphore, release_urls, index_urls, skel, mirror,
                 lockVars, unitVars>>

\* _process_indexes: the directory of the index path it builds, with the
\* literal segment '*'
StarIndexDir ==
  SanitizeUri(RepoUri \o <<"dists", "*", Component, "binary-" \o Arch>>)

\* for ext in ['', '.gz', '.bz2', '.xz']
ExtOrder == <<"", ".gz", ".bz2", ".xz">>

\* _process_packages_index, the loop over the stanzas with a Filename field
RECURSIVE EnqueuePackages(_, _, _)
EnqueuePackages(q, uri, stanzas) ==
  IF stanzas = <<>> THEN q
  ELSE
    LET package == Head(stanzas)
        file_path == RemoveDoubleSlashes(uri \o package.Filename)
        canonical == SanitizeUri(file_path)
        seen == [q EXCEPT !.skip_clean = @ \cup {canonical}]
        hashed == package.hash_type # "None" /\ package.hashsum # NoHash
        needs_update ==
          IF ~Exists(mirror, canonical) THEN TRUE
          ELSE IF hashed /\ config.verify_checksums
          THEN ~VerifyChecksum(mirror[canonical], package.hash_type, package.hashsum)
          ELSE Len(mirror[canonical]) # package.Size
        next ==
          IF ~needs_update THEN seen
          ELSE IF hashed
          THEN AddUrlToDownload(seen, file_path, package.Size, package.hash_type,
                                package.hash_type, package.hashsum)
          ELSE AddUrlToDownload(seen, file_path, package.Size, "None", "None", NoHash)
    IN EnqueuePackages(next, uri, Tail(stanzas))

\* _process_packages_index(uri, index_path, mirror_base): the completeness
\* test against metadata_checksums, then the stanzas
ProcessPackagesIndex(q, uri, index_path) ==
  LET canonical == SanitizeUri(uri \o <<index_path[Len(index_path)]>>)
      known == canonical \in DOMAIN metadata_checksums
      expected == metadata_checksums[canonical]
      refused ==
        /\ known
        /\ \/ Len(skel[index_path]) # expected[3]
           \/ /\ expected[1] # "None"
              /\ expected[2] # NoHash
              /\ config.verify_checksums
              /\ ~VerifyChecksum(skel[index_path], expected[1], expected[2])
  IN IF refused THEN q ELSE EnqueuePackages(q, uri, star_packages)

\* _process_indexes: with components, the first Packages file that exists
\* under the path with the literal '*' is processed; without, nothing is
ProcessIndexes ==
  /\ rpc = "process_indexes"
  /\ stage_log' = Append(stage_log, "process_indexes")
  /\ LET found == {i \in 1..Len(ExtOrder) :
                     Exists(skel, StarIndexDir \o <<"Packages" \o ExtOrder[i]>>)}
         first == CHOOSE i \in found : \A j \in found : i <= j
         q == IF flat \/ found = {} THEN Tables
              ELSE ProcessPackagesIndex(Tables, RepoUri,
                     StarIndexDir \o <<"Packages" \o ExtOrder[first]>>)
     IN /\ download_queue' = q.download_queue
        /\ hashsum_to_files' = q.hashsum_to_files
        /\ file_to_hashsums' = q.file_to_hashsums
        /\ skip_clean' = q.skip_clean
  /\ rpc' = "download_packages"
  /\ UNCHANGED <<config, envVars, run_exc, semaphore, release_urls, index_urls,
                 local_urls, metadata_checksums, batch, batch_stage, progress,
                 taskVars, skel, mirror, lockVars, unitVars>>

\* _download_packages: if self.download_queue: await download_batch(...)
DownloadPackages ==
  /\ rpc = "download_packages"
  /\ stage_log' = Append(stage_log, "download_packages")
  /\ IF download_queue # <<>>
     THEN /\ StartBatch(download_queue, "archive")
          /\ rpc' = "archive_batch"
     ELSE /\ rpc' = "copy_skel_to_mirror"
          /\ UNCHANGED <<batch, batch_stage, progress, taskVars>>
  /\ UNCHANGED <<config, envVars, run_exc, semaphore, release_urls, index_urls,
                 local_urls, download_queue, hashsum_to_files, file_to_hashsums,
                 skip_clean, metadata_checksums, skel, mirror, lockVars, unitVars>>

\* _copy_file(source, dest) on contents: nothing without the source;
\* otherwise dest ends with the source's content (by the link, by the copy,
\* or because it was skipped as already identical)
CopyFile(tree, source, dest) ==
  IF ~Exists(skel, source) THEN tree ELSE WriteFile(tree, dest, skel[source])

\* _copy_skel_to_mirror, the inner loop over self.hashsum_to_files[canonical]
RECURSIVE CopyToTargets(_, _, _)
CopyToTargets(tree, source, targets) ==
  IF targets = <<>> THEN tree
  ELSE CopyToTargets(CopyFile(tree, source, Head(targets)), source, Tail(targets))

\* _copy_skel_to_mirror, the loop over release_urls + index_urls
RECURSIVE CopyUrls(_, _)
CopyUrls(tree, urls) ==
  IF urls = <<>> THEN tree
  ELSE LET canonical == SanitizeUri(Head(urls)) IN
       CopyUrls(CopyToTargets(CopyFile(tree, canonical, canonical), canonical,
                              DictGet(hashsum_to_files, canonical)),
                Tail(urls))

CopySkelToMirror ==
  /\ rpc = "copy_skel_to_mirror"
  /\ stage_log' = Append(stage_log, "copy_skel_to_mirror")
  /\ mirror' = CopyUrls(mirror, release_urls \o index_urls)
  /\ rpc' = "generate_diffs"
  /\ UNCHANGED <<config, envVars, run_exc, semaphore, release_urls, index_urls,
                 local_urls, download_queue, hashsum_to_files, file_to_hashsums,
                 skip_clean, metadata_checksums, batch, batch_stage, progress,
                 taskVars, skel, lockVars, unitVars>>

\* stages 6 to 8 of run(): _generate_diffs if enable_diffs, _cleanup_old_files,
\* _run_postmirror if run_postmirror; their effect on the trees is not part
\* of this model
LaterStage ==
  /\ rpc \in {"generate_diffs", "cleanup_old_files", "run_postmirror"}
  /\ \E enabled \in BOOLEAN :
       /\ rpc = "cleanup_old_files" => enabled
       /\ stage_log' = IF enabled THEN Append(stage_log, rpc) ELSE stage_log
  /\ rpc' = IF rpc = "run_postmirror" THEN "cleanup" ELSE AfterStage(rpc)
  /\ UNCHANGED <<config, envVars, run_exc, semaphore, release_urls, index_urls,
                 local_urls, download_queue, hashsum_to_files, file_to_hashsums,
                 skip_clean, metadata_checksums, batch, batch_stage, progress,
                 taskVars, skel, mirror, lockVars, unitVars>>

\* finally: await self.cleanup() (its steps are those of Part I)
Cleanup ==
  /\ rpc = "cleanup"
  /\ rpc' = "done"
  /\ UNCHANGED <<config, envVars, run_exc, semaphore, tableVars, batch, batch_stage,
                 progress, taskVars, skel, mirror, lockVars, unitVars>>

(***************************************************************************)
(* SpecFetch: download_file on one task, with the trees, the configuration *)
(* and the server's file drawn from bounded sets.                          *)
(***************************************************************************)
FetchPath == <<"r", "pool", "f">>
FetchHashPath == <<"r", "pool", "by-hash", "SHA256", Hash("SHA256", <<1, 1>>)>>

\* the contents a file of the model can start with
Contents == {<<>>, <<1>>, <<1, 1>>, <<1, 2>>, <<1, 1, 1>>}
Payloads == {<<1>>, <<1, 1>>, <<1, 2>>}

FetchTasks ==
  {DownloadTask(Url(FetchPath), size, "None", NoHash, FetchPath, NoPath, "archive")
     : size \in {0, 2}}
  \cup {DownloadTask(Url(FetchPath), 2, "SHA256", Hash("SHA256", <<1, 1>>),
                     FetchPath, NoPath, "archive"),
        DownloadTask(Url(FetchHashPath), 2, "SHA256", Hash("SHA256", <<1, 1>>),
                     FetchPath, FetchHashPath, "archive")}

Trees(path) == {<<>>} \cup {(path :> c) : c \in Contents}

\* no unit is under check
InitNoUri ==
  /\ uri_text = NoPath
  /\ uri_arg = NoPath
  /\ uri_calls = <<>>

InitNoParse == release_content = <<>>

InitNoPromo ==
  /\ inodes = <<>>
  /\ skel_ino = <<>>
  /\ mirror_ino = <<>>
  /\ promo_log = <<>>

NoVersionsFile == [exists |-> FALSE, records |-> <<>>, complete |-> FALSE]

InitNoDiff ==
  /\ tool_installed = TRUE
  /\ diff_files = <<>>
  /\ versions_file = NoVersionsFile
  /\ new_versions = <<>>
  /\ diff_log = <<>>
  /\ diff_pos = 0
  /\ dpc = "none"

\* Config(): var_path is "$base_path/var" under the default base_path
DefaultVarPath == <<"var", "spool", "apt-mirror", "var">>

\* every configuration file leaves var_path at its default
InitNoPaths ==
  /\ var_path = [e \in Engines |-> DefaultVarPath]
  /\ cfg_var_path = [e \in Engines |-> DefaultVarPath]
  /\ lock_path = [e \in Engines |-> NoPath]

InitUnits == InitNoUri /\ InitNoParse /\ InitNoPromo /\ InitNoDiff /\ InitNoPaths

InitTables ==
  /\ release_urls = <<>>
  /\ index_urls = <<>>
  /\ local_urls = <<>>
  /\ stage_log = <<>>
  /\ download_queue = <<>>
  /\ hashsum_to_files = <<>>
  /\ file_to_hashsums = <<>>
  /\ skip_clean = {}
  /\ metadata_checksums = <<>>

InitFetch ==
  /\ InitUnits
  /\ InitLock
  /\ \E task \in FetchTasks :
       /\ batch = <<task>>
       /\ skel \in Trees(LocalPath(task))
       /\ mirror \in Trees(task.canonical_path)
       /\ upstream \in {(task.url :> c) : c \in Payloads}
  /\ config_file \in Configs({DefaultNthreads}, 0..MaxFetchRetry, BOOLEAN, BOOLEAN)
  /\ config = config_file
  /\ flat = FALSE
  /\ release_data = [acquire_by_hash |-> FALSE, hashes |-> {}, files |-> <<>>]
  /\ star_packages = <<>>
  /\ planned = NoPlan
  /\ rpc = "fetch"
  /\ run_exc = "none"
  /\ semaphore = DefaultNthreads
  /\ InitTables
  /\ batch_stage = "archive"
  /\ progress = NewProgress(batch)
  /\ tpc = NewTaskState(batch, "created")
  /\ attempt = NewTaskState(batch, 0)
  /\ headers = NewTaskState(batch, NoRange)
  /\ result = NewTaskState(batch, "none")
  /\ gets = NewTaskState(batch, 0)
  /\ lastTry = NewTaskState(batch, "none")
  /\ slept = NewTaskState(batch, <<>>)

\* asyncio.gather runs the download_file coroutines of the batch
DownloadFileEnter == \E t \in Tasks : Enter(t)
DownloadFileTry == \E t \in Tasks : Try(t)

NextFetch ==
  \/ DownloadFileEnter
  \/ DownloadFileTry

SpecFetch == InitFetch /\ [][NextFetch]_vars

(***************************************************************************)
(* SpecRefetch: download_file on one task whose staged file an earlier run *)
(* promoted to mirror/ with _copy_file: by os.link, so that skel/ and      *)
(* mirror/ name one inode, or by shutil.copy2.  Upstream may since have    *)
(* changed the file and what the task declares of it.                      *)
(***************************************************************************)
InitRefetch ==
  /\ InitNoPaths
  /\ InitNoUri
  /\ InitNoParse
  /\ InitNoDiff
  /\ InitLock
  /\ \E task \in {k \in FetchTasks : LocalPath(k) = k.canonical_path},
        bytes \in Contents, link_ok \in BOOLEAN :
       /\ batch = <<task>>
       /\ inodes = IF link_ok THEN <<[bytes |-> bytes, mtime |-> 1, mode |-> "644"]>>
                   ELSE <<[bytes |-> bytes, mtime |-> 1, mode |-> "644"],
                          [bytes |-> bytes, mtime |-> 1, mode |-> "644"]>>
       /\ skel_ino = (LocalPath(task) :> 1)
       /\ mirror_ino = (task.canonical_path :> (IF link_ok THEN 1 ELSE 2))
       /\ upstream \in {(task.url :> c) : c \in Payloads}
  /\ promo_log = <<>>
  /\ skel = [path \in DOMAIN skel_ino |-> inodes[skel_ino[path]].bytes]
  /\ mirror = [path \in DOMAIN mirror_ino |-> inodes[mirror_ino[path]].bytes]
  /\ config_file \in Configs({DefaultNthreads}, 0..MaxFetchRetry, BOOLEAN, BOOLEAN)
  /\ config = config_file
  /\ flat = FALSE
  /\ release_data = [acquire_by_hash |-> FALSE, hashes |-> {}, files |-> <<>>]
  /\ star_packages = <<>>
  /\ planned = NoPlan
  /\ rpc = "fetch"
  /\ run_exc = "none"
  /\ semaphore = DefaultNthreads
  /\ InitTables
  /\ batch_stage = "archive"
  /\ progress = NewProgress(batch)
  /\ tpc = NewTaskState(batch, "created")
  /\ attempt = NewTaskState(batch, 0)
  /\ headers = NewTaskState(batch, NoRange)
  /\ result = NewTaskState(batch, "none")
  /\ gets = NewTaskState(batch, 0)
  /\ lastTry = NewTaskState(batch, "none")
  /\ slept = NewTaskState(batch, <<>>)

SpecRefetch == InitRefetch /\ [][NextFetch]_vars

(***************************************************************************)
(* SpecLock: the engine processes of Part I; no pipeline state.            *)
(***************************************************************************)
InitNoRun ==
  /\ InitNoUri
  /\ InitNoParse
  /\ InitNoPromo
  /\ InitNoDiff
  /\ config = DefaultConfig
  /\ config_file = DefaultConfig
  /\ flat = FALSE
  /\ upstream = <<>>
  /\ release_data = [acquire_by_hash |-> FALSE, hashes |-> {}, files |-> <<>>]
  /\ star_packages = <<>>
  /\ planned = NoPlan
  /\ rpc = "none"
  /\ run_exc = "none"
  /\ semaphore = 0
  /\ InitTables
  /\ batch = <<>>
  /\ batch_stage = "none"
  /\ progress = NewProgress(<<>>)
  /\ tpc = <<>>
  /\ attempt = <<>>
  /\ headers = <<>>
  /\ result = <<>>
  /\ gets = <<>>
  /\ lastTry = <<>>
  /\ slept = <<>>
  /\ skel = <<>>
  /\ mirror = <<>>

InitEngines == InitLock /\ InitNoRun /\ InitNoPaths

SpecLock == InitEngines /\ [][NextLock]_vars

\* the event loop runs a live process's coroutine to its end
FairLock ==
  SpecLock /\ \A e \in Engines : WF_vars(EngineStep(e))

(***************************************************************************)
(* SpecVarPath: the engine processes of Part I, whose configuration files  *)
(* all leave var_path at its default or set one var_path per engine.       *)
(***************************************************************************)
ConfiguredVarPath(e) == <<"srv", ToString(e), "var">>

InitVarPath ==
  /\ InitLock
  /\ InitNoRun
  /\ var_path = [e \in Engines |-> DefaultVarPath]
  /\ cfg_var_path \in {[e \in Engines |-> DefaultVarPath],
                       [e \in Engines |-> ConfiguredVarPath(e)]}
  /\ lock_path = [e \in Engines |-> NoPath]

SpecVarPath == InitVarPath /\ [][NextLock]_vars

(***************************************************************************)
(* SpecRun: one engine's run() from initialize to cleanup, on a cold       *)
(* mirror, for the repository layouts and staged documents below.          *)
(***************************************************************************)
IndexContent == <<1, 1>>

\* an entry of release_data['files']
FileInfo(filename, hash_type) ==
  [filename |-> filename, size |-> Len(IndexContent), hash_type |-> hash_type,
   hashsum |-> Hash(hash_type, IndexContent)]

NoReleaseData == [acquire_by_hash |-> FALSE, hashes |-> {}, files |-> <<>>]

\* what the parser can make of the staged Release: nothing; one Packages
\* entry without Acquire-By-Hash; with it, one digest block, then a Sources
\* and a Packages entry; with it, an MD5Sum block and a SHA256 block
ReleaseDatas ==
  {NoReleaseData,
   [acquire_by_hash |-> FALSE, hashes |-> {"SHA256"},
    files |-> <<FileInfo(<<"Packages">>, "SHA256")>>],
   [acquire_by_hash |-> TRUE, hashes |-> {"SHA256"},
    files |-> <<FileInfo(<<"Sources">>, "SHA256"), FileInfo(<<"Packages">>, "SHA256")>>],
   [acquire_by_hash |-> TRUE, hashes |-> {"MD5Sum", "SHA256"},
    files |-> <<FileInfo(<<"Packages">>, "MD5Sum"), FileInfo(<<"Packages">>, "SHA256")>>]}

PackagePath == <<"pool", "p.deb">>
PackageContent == <<1, 2>>

\* the stanzas of a staged Packages file: one package, with or without a digest
PackageLists ==
  {<<[Filename |-> PackagePath, Size |-> Len(PackageContent),
      hash_type |-> "SHA256", hashsum |-> Hash("SHA256", PackageContent)]>>,
   <<[Filename |-> PackagePath, Size |-> Len(PackageContent),
      hash_type |-> "None", hashsum |-> NoHash]>>}

\* what the server can hold as the Packages index: the file the Release
\* declares, or a shorter one
IndexPayloads == {IndexContent, <<1>>}

\* the server: the three release documents and the Packages index of the
\* repository's layout
RunUpstream(is_flat, index_content) ==
  LET dist == IF is_flat THEN RepoUri \o <<Distribution>>
              ELSE RepoUri \o <<"dists", Distribution>>
  IN [u \in {dist \o <<ReleaseNames[i]>> : i \in 1..Len(ReleaseNames)} |-> <<1>>]
     @@ ((dist \o <<"Packages">>) :> index_content)

InitRun ==
  /\ InitUnits
  /\ InitLock
  /\ config = DefaultConfig
  /\ config_file \in Configs(1..MaxCfgNthreads, 0..MaxRetry, {TRUE}, {TRUE})
  /\ flat \in BOOLEAN
  /\ \/ /\ flat
        /\ upstream \in {RunUpstream(flat, c) : c \in IndexPayloads}
        /\ release_data \in ReleaseDatas
        /\ star_packages = <<>>
        /\ skel = <<>>
     \/ /\ ~flat
        /\ upstream = RunUpstream(flat, IndexContent)
        /\ release_data \in {d \in ReleaseDatas : ~d.acquire_by_hash}
        /\ star_packages = <<>>
        /\ skel = <<>>
     \/ /\ ~flat
        /\ upstream = RunUpstream(flat, IndexContent)
        /\ release_data = NoReleaseData
        /\ star_packages \in PackageLists
        /\ skel = ((StarIndexDir \o <<"Packages">>) :> <<3>>)
  /\ mirror = <<>>
  /\ planned = NoPlan
  /\ rpc = "initialize"
  /\ run_exc = "none"
  /\ semaphore = 0
  /\ InitTables
  /\ batch = <<>>
  /\ batch_stage = "none"
  /\ progress = NewProgress(<<>>)
  /\ tpc = <<>>
  /\ attempt = <<>>
  /\ headers = <<>>
  /\ result = <<>>
  /\ gets = <<>>
  /\ lastTry = <<>>
  /\ slept = <<>>

NextRun ==
  \/ Initialize
  \/ SetConfig
  \/ DownloadReleases
  \/ DownloadFileEnter
  \/ DownloadFileTry
  \/ DownloadBatchDone
  \/ DownloadMetadata
  \/ ProcessIndexes
  \/ DownloadPackages
  \/ CopySkelToMirror
  \/ LaterStage
  \/ Cleanup

SpecRun == InitRun /\ [][NextRun]_vars

(***************************************************************************)
(* SpecMeta: _download_metadata and its index batch for a flat repository  *)
(* whose Release is staged.  release_data is what a parser that binds every *)
(* tuple line to its block makes of Release documents that list Packages   *)
(* in one block or in an MD5Sum and a SHA256 block, in either order.       *)
(***************************************************************************)
MetaFiles ==
  {<<FileInfo(<<"Packages">>, "SHA256")>>,
   <<FileInfo(<<"Packages">>, "MD5Sum"), FileInfo(<<"Packages">>, "SHA256")>>,
   <<FileInfo(<<"Packages">>, "SHA256"), FileInfo(<<"Packages">>, "MD5Sum")>>,
   <<FileInfo(<<"Packages">>, "SHA256"), FileInfo(<<"Packages.gz">>, "SHA256")>>}

MetaReleaseDatas ==
  {[acquire_by_hash |-> a, hashes |-> {files[i].hash_type : i \in 1..Len(files)},
    files |-> files] : a \in BOOLEAN, files \in MetaFiles}

InitMeta ==
  /\ InitUnits
  /\ InitLock
  /\ config \in Configs({DefaultNthreads}, 1..MaxRetry, {TRUE}, BOOLEAN)
  /\ config_file = config
  /\ flat = TRUE
  /\ upstream \in {RunUpstream(TRUE, c) : c \in IndexPayloads}
  /\ release_data \in MetaReleaseDatas
  /\ star_packages = <<>>
  /\ planned = NoPlan
  /\ rpc = "download_metadata"
  /\ run_exc = "none"
  /\ semaphore = DefaultNthreads
  /\ release_urls = [i \in 1..Len(ReleaseNames) |-> DistUri \o <<ReleaseNames[i]>>]
  /\ index_urls = <<>>
  /\ local_urls = release_urls
  /\ stage_log = <<"download_releases">>
  /\ download_queue = <<>>
  /\ hashsum_to_files = <<>>
  /\ file_to_hashsums = <<>>
  /\ skip_clean = {}
  /\ metadata_checksums = <<>>
  /\ batch = <<>>
  /\ batch_stage = "none"
  /\ progress = NewProgress(<<>>)
  /\ tpc = <<>>
  /\ attempt = <<>>
  /\ headers = <<>>
  /\ result = <<>>
  /\ gets = <<>>
  /\ lastTry = <<>>
  /\ slept = <<>>
  /\ skel = [path \in {SanitizeUri(release_urls[i]) : i \in 1..Len(release_urls)}
               |-> <<1>>]
  /\ mirror = <<>>

NextMeta ==
  \/ DownloadMetadata
  \/ DownloadFileEnter
  \/ DownloadFileTry
  \/ DownloadBatchDone

SpecMeta == InitMeta /\ [][NextMeta]_vars

(***************************************************************************)
(* SpecPlan: _add_url_to_download called up to MaxPlans times on an        *)
(* engine with empty tables, its arguments drawn from PlanArgs.            *)
(***************************************************************************)
PlanUrls == {Url(<<"r", "d", "Packages">>), Url(<<"r", "pool", "p.deb">>)}

PlanArgs ==
  [url : PlanUrls, size : {Len(IndexContent)}, strongest_hash : {"None", "SHA256"},
   hash_type : {"None", "SHA256", "MD5Sum"},
   hashsum : {NoHash, Hash("SHA256", IndexContent)}]

\* the number of values in the lists of a defaultdict(list)
RECURSIVE CountFiles(_)
CountFiles(d) == IF d = <<>> THEN 0 ELSE Len(Head(d).files) + CountFiles(Tail(d))

\* every call appends to download_queue or to a list of file_to_hashsums
PlansMade == Len(download_queue) + CountFiles(file_to_hashsums)

InitPlan ==
  /\ InitUnits
  /\ InitLock
  /\ config = DefaultConfig
  /\ config_file = DefaultConfig
  /\ flat = FALSE
  /\ upstream = <<>>
  /\ release_data = NoReleaseData
  /\ star_packages = <<>>
  /\ planned = NoPlan
  /\ rpc = "plan"
  /\ run_exc = "none"
  /\ semaphore = DefaultNthreads
  /\ InitTables
  /\ batch = <<>>
  /\ batch_stage = "none"
  /\ progress = NewProgress(<<>>)
  /\ tpc = <<>>
  /\ attempt = <<>>
  /\ headers = <<>>
  /\ result = <<>>
  /\ gets = <<>>
  /\ lastTry = <<>>
  /\ slept = <<>>
  /\ skel = <<>>
  /\ mirror = <<>>

\* one call self._add_url_to_download(url, size, strongest_hash, hash_type, hashsum)
AddUrlCall ==
  /\ rpc = "plan"
  /\ PlansMade < MaxPlans
  /\ \E a \in PlanArgs :
       LET q == AddUrlToDownload(Tables, a.url, a.size, a.strongest_hash,
                                 a.hash_type, a.hashsum)
       IN /\ planned' = a
          /\ download_queue' = q.download_queue
          /\ hashsum_to_files' = q.hashsum_to_files
          /\ file_to_hashsums' = q.file_to_hashsums
          /\ skip_clean' = q.skip_clean
  /\ UNCHANGED <<config, config_file, flat, upstream, release_data, star_packages,
                 rpc, run_exc, semaphore, release_urls, index_urls, local_urls,
                 stage_log, metadata_checksums, batch, batch_stage, progress,
                 taskVars, skel, mirror, lockVars, unitVars>>

NextPlan == AddUrlCall

SpecPlan == InitPlan /\ [][NextPlan]_vars

(***************************************************************************)
(* SpecIndex: _process_packages_index called on a staged Packages index    *)
(* of a repository with components, for which _download_metadata recorded  *)
(* the Release's declaration in metadata_checksums.                        *)
(***************************************************************************)
\* the index as the Release names it, and its URL and canonical path as
\* _download_metadata builds them
DeclaredIndexName == <<Component, "binary-" \o Arch, "Packages">>
DeclaredIndexUrl == RepoUri \o <<"dists", Distribution>> \o DeclaredIndexName
DeclaredIndexPath == SanitizeUri(DeclaredIndexUrl)

\* self.metadata_checksums[canonical] = (strongest_hash, hashsum, size), or
\* (None, None, size)
Declarations ==
  {(DeclaredIndexPath :> <<"SHA256", Hash("SHA256", IndexContent), Len(IndexContent)>>),
   (DeclaredIndexPath :> <<"None", NoHash, Len(IndexContent)>>)}

\* the canonical path _process_packages_index gives the model's package
PackageCanonical == SanitizeUri(RemoveDoubleSlashes(RepoUri \o PackagePath))

InitIndex ==
  /\ InitUnits
  /\ InitLock
  /\ config \in Configs({DefaultNthreads}, {DefaultRetryAttempts}, BOOLEAN, {TRUE})
  /\ config_file = config
  /\ flat = FALSE
  /\ upstream = <<>>
  /\ release_data = NoReleaseData
  /\ star_packages \in PackageLists
  /\ planned = NoPlan
  /\ rpc = "index"
  /\ run_exc = "none"
  /\ semaphore = DefaultNthreads
  /\ release_urls = <<>>
  /\ index_urls = <<>>
  /\ local_urls = <<>>
  /\ stage_log = <<>>
  /\ download_queue = <<>>
  /\ hashsum_to_files = <<>>
  /\ file_to_hashsums = <<>>
  /\ skip_clean = {}
  /\ metadata_checksums \in Declarations
  /\ batch = <<>>
  /\ batch_stage = "none"
  /\ progress = NewProgress(<<>>)
  /\ tpc = <<>>
  /\ attempt = <<>>
  /\ headers = <<>>
  /\ result = <<>>
  /\ gets = <<>>
  /\ lastTry = <<>>
  /\ slept = <<>>
  /\ skel \in {(DeclaredIndexPath :> c) : c \in Contents}
  /\ mirror \in Trees(PackageCanonical)

\* one call self._process_packages_index(uri, index_path, mirror_base)
ProcessPackagesIndexCall ==
  /\ rpc = "index"
  /\ LET q == ProcessPackagesIndex(Tables, RepoUri, DeclaredIndexPath)
     IN /\ download_queue' = q.download_queue
        /\ hashsum_to_files' = q.hashsum_to_files
        /\ file_to_hashsums' = q.file_to_hashsums
        /\ skip_clean' = q.skip_clean
  /\ rpc' = "index_done"
  /\ UNCHANGED <<config, envVars, run_exc, semaphore, release_urls, index_urls,
                 local_urls, stage_log, metadata_checksums, batch, batch_stage,
                 progress, taskVars, skel, mirror, lockVars, unitVars>>

NextIndex == ProcessPackagesIndexCall

SpecIndex == InitIndex /\ [][NextIndex]_vars

(***************************************************************************)
(* SpecUri: _sanitize_uri and _remove_double_slashes applied, up to        *)
(* MaxUriCalls times in a row, to a URI built from an optional scheme,     *)
(* user information with zero, one or two '@', and a path.                 *)
(***************************************************************************)
UriUserInfos == {<<>>, <<"u", At>>, <<"a", At, "b", At>>}
UriPaths == {<<"r", "d">>, <<"r", "", "d">>, <<"r", "~u">>}

Uris ==
  {auth \o path : auth \in UriUserInfos, path \in UriPaths}
  \cup {Url(auth \o path) : auth \in UriUserInfos, path \in UriPaths}

\* the state of an engine whose pipeline is not running
InitIdle ==
  /\ config_file = config
  /\ flat = FALSE
  /\ upstream = <<>>
  /\ release_data = NoReleaseData
  /\ star_packages = <<>>
  /\ planned = NoPlan
  /\ run_exc = "none"
  /\ semaphore = DefaultNthreads
  /\ InitTables
  /\ batch = <<>>
  /\ batch_stage = "none"
  /\ progress = NewProgress(<<>>)
  /\ tpc = <<>>
  /\ attempt = <<>>
  /\ headers = <<>>
  /\ result = <<>>
  /\ gets = <<>>
  /\ lastTry = <<>>
  /\ slept = <<>>
  /\ skel = <<>>
  /\ mirror = <<>>

InitUri ==
  /\ InitNoPaths
  /\ InitLock
  /\ config \in {[DefaultConfig EXCEPT !._tilde = b] : b \in BOOLEAN}
  /\ InitIdle
  /\ rpc = "uri"
  /\ uri_arg \in Uris
  /\ uri_text = uri_arg
  /\ uri_calls = <<>>
  /\ InitNoParse
  /\ InitNoPromo
  /\ InitNoDiff

\* one call self._sanitize_uri(uri_text)
SanitizeUriCall ==
  /\ rpc = "uri"
  /\ Len(uri_calls) < MaxUriCalls
  /\ uri_text' = SanitizeUri(uri_text)
  /\ uri_calls' = Append(uri_calls, "_sanitize_uri")
  /\ UNCHANGED <<uri_arg, parseVars, promoVars, diffVars, pathVars, runVarsButUnits,
                 lockVars>>

\* one call self._remove_double_slashes(uri_text)
RemoveDoubleSlashesCall ==
  /\ rpc = "uri"
  /\ Len(uri_calls) < MaxUriCalls
  /\ uri_text' = RemoveDoubleSlashes(uri_text)
  /\ uri_calls' = Append(uri_calls, "_remove_double_slashes")
  /\ UNCHANGED <<uri_arg, parseVars, promoVars, diffVars, pathVars, runVarsButUnits,
                 lockVars>>

NextUri ==
  \/ SanitizeUriCall
  \/ RemoveDoubleSlashesCall

SpecUri == InitUri /\ [][NextUri]_vars

(***************************************************************************)
(* SpecParse: _parse_release_content applied to a Release document of up   *)
(* to MaxLines lines.  A line is a sequence of tokens: words, and " " for  *)
(* a run of blanks.                                                        *)
(***************************************************************************)
Blank == " "

RECURSIVE LStrip(_)
LStrip(line) ==
  IF line # <<>> /\ Head(line) = Blank THEN LStrip(Tail(line)) ELSE line

RECURSIVE RStrip(_)
RStrip(line) ==
  IF line # <<>> /\ line[Len(line)] = Blank
  THEN RStrip(SubSeq(line, 1, Len(line) - 1))
  ELSE line

\* str.strip()
Strip(line) == LStrip(RStrip(line))

\* line.startswith(' ')
StartsWithBlank(line) == line # <<>> /\ Head(line) = Blank

\* str.split()
Split(line) == SelectSeq(line, LAMBDA tok : tok # Blank)

\* int(size) for the decimal numerals of the model
IntOf(tok) == CHOOSE n \in 0..9 : ToString(n) = tok

\* line == f"{ht.value}:" for some ht of hash_strength
HeaderOf(line) ==
  IF \E i \in 1..Len(HashStrength) : line = <<HashStrength[i] \o ":">>
  THEN HashStrength[CHOOSE i \in 1..Len(HashStrength) : line = <<HashStrength[i] \o ":">>]
  ELSE "None"

\* elif line and not line.startswith(' '): current_hash = None
CloseBlock(line, current_hash) == IF line # <<>> THEN "None" ELSE current_hash

\* one pass of the loop over content.split('\n'); st holds current_hash and
\* result (result['hashes'] by its keys; a file name without slash is one
\* path segment)
ParseLine(st, raw) ==
  LET line == Strip(raw)
      abh == IF line = <<"Acquire-By-Hash:", Blank, "yes">> THEN TRUE
             ELSE st.acquire_by_hash
      header == HeaderOf(line)
      current_hash == IF header # "None" THEN header ELSE st.current_hash
      hashes == IF header # "None" THEN st.hashes \cup {header} ELSE st.hashes
      parts == Split(line)
  IN
  IF current_hash # "None" /\ StartsWithBlank(line)
  THEN IF Len(parts) = 3
       THEN [current_hash |-> current_hash, acquire_by_hash |-> abh, hashes |-> hashes,
             files |-> Append(st.files,
                         [filename |-> <<parts[3]>>, size |-> IntOf(parts[2]),
                          hash_type |-> current_hash, hashsum |-> parts[1]])]
       ELSE [current_hash |-> current_hash, acquire_by_hash |-> abh, hashes |-> hashes,
             files |-> st.files]
  ELSE [current_hash |-> IF StartsWithBlank(line) THEN current_hash
                         ELSE CloseBlock(line, current_hash),
        acquire_by_hash |-> abh, hashes |-> hashes, files |-> st.files]

RECURSIVE ParseLines(_, _)
ParseLines(st, lines) ==
  IF lines = <<>> THEN st ELSE ParseLines(ParseLine(st, Head(lines)), Tail(lines))

\* _parse_release_content(content)
ParseReleaseContent(lines) ==
  LET st == ParseLines([current_hash |-> "None", acquire_by_hash |-> FALSE,
                        hashes |-> {}, files |-> <<>>], lines)
  IN [acquire_by_hash |-> st.acquire_by_hash, hashes |-> st.hashes, files |-> st.files]

\* the lines of the model's Release documents
TupleLine(hash_type) ==
  <<Blank, Hash(hash_type, IndexContent), Blank, ToString(Len(IndexContent)), Blank,
    "Packages">>

ReleaseLines ==
  {<<>>, <<"Origin:", Blank, "x">>, <<"Acquire-By-Hash:", Blank, "yes">>,
   <<"SHA256:">>, <<"MD5Sum:">>, TupleLine("SHA256"), TupleLine("MD5Sum")}

ReleaseContents ==
  UNION {[1..n -> ReleaseLines] : n \in 0..MaxLines}

InitParse ==
  /\ InitNoPaths
  /\ InitLock
  /\ config = DefaultConfig
  /\ InitIdle
  /\ rpc = "parse"
  /\ InitNoUri
  /\ InitNoPromo
  /\ InitNoDiff
  /\ release_content \in ReleaseContents

\* one call self._parse_release_content(content)
ParseReleaseContentCall ==
  /\ rpc = "parse"
  /\ release_data' = ParseReleaseContent(release_content)
  /\ rpc' = "parsed"
  /\ UNCHANGED <<config, config_file, flat, upstream, star_packages, planned,
                 run_exc, semaphore, tableVars, batch, batch_stage, progress,
                 taskVars, skel, mirror, lockVars, unitVars>>

NextParse == ParseReleaseContentCall

SpecParse == InitParse /\ [][NextParse]_vars

(***************************************************************************)
(* SpecBatch: download_batch(self.download_queue, "archive") as            *)
(* _download_packages calls it, on the tables that calls of                *)
(* _add_url_to_download for two files of one directory built, with a warm  *)
(* or cold mirror and a staged hash-path file left by an earlier run.      *)
(***************************************************************************)
FanoutFiles == {"Packages", "Index"}

\* the calls: each file once under the strongest algorithm and once under a
\* weaker one
FanoutCalls ==
  [url : {Url(<<"r", "d", f>>) : f \in FanoutFiles}, size : {Len(IndexContent)},
   strongest_hash : {"SHA256"}, hash_type : {"SHA256", "MD5Sum"},
   hashsum : {Hash("SHA256", IndexContent), Hash("MD5Sum", IndexContent)}]

\* each file's digest is the one of its algorithm
FanoutPlans ==
  LET calls == {a \in FanoutCalls : a.hashsum = Hash(a.hash_type, IndexContent)}
  IN {p \in UNION {[1..n -> calls] : n \in 1..Cardinality(calls)} :
        \A i \in 1..Len(p), j \in 1..Len(p) : i # j => p[i] # p[j]}

NoTables ==
  [download_queue |-> <<>>, hashsum_to_files |-> <<>>, file_to_hashsums |-> <<>>,
   skip_clean |-> {}]

\* the tables after the calls of a plan, in order
RECURSIVE PlanAll(_, _)
PlanAll(q, plan) ==
  IF plan = <<>> THEN q
  ELSE PlanAll(AddUrlToDownload(q, Head(plan).url, Head(plan).size,
                                Head(plan).strongest_hash, Head(plan).hash_type,
                                Head(plan).hashsum),
               Tail(plan))

\* the hash path and the canonical path _add_url_to_download gives Packages
FanoutCanonical == SanitizeUri(RemoveDoubleSlashes(Url(<<"r", "d", "Packages">>)))
FanoutHashPath ==
  Dirname(FanoutCanonical) \o <<"by-hash", "SHA256", Hash("SHA256", IndexContent)>>

InitBatch ==
  /\ InitLock
  /\ InitUnits
  /\ config \in Configs({DefaultNthreads}, {1}, BOOLEAN, {TRUE})
  /\ config_file = config
  /\ flat = FALSE
  /\ upstream = <<>>
  /\ release_data = NoReleaseData
  /\ star_packages = <<>>
  /\ planned = NoPlan
  /\ rpc = "archive_batch"
  /\ run_exc = "none"
  /\ semaphore = DefaultNthreads
  /\ release_urls = <<>>
  /\ index_urls = <<>>
  /\ local_urls = <<>>
  /\ stage_log = <<"download_packages">>
  /\ metadata_checksums = <<>>
  /\ \E plan \in FanoutPlans :
       LET q == PlanAll(NoTables, plan)
       IN /\ download_queue = q.download_queue
          /\ hashsum_to_files = q.hashsum_to_files
          /\ file_to_hashsums = q.file_to_hashsums
          /\ skip_clean = q.skip_clean
  /\ batch = download_queue
  /\ batch_stage = "archive"
  /\ progress = NewProgress(batch)
  /\ tpc = NewTaskState(batch, "created")
  /\ attempt = NewTaskState(batch, 0)
  /\ headers = NewTaskState(batch, NoRange)
  /\ result = NewTaskState(batch, "none")
  /\ gets = NewTaskState(batch, 0)
  /\ lastTry = NewTaskState(batch, "none")
  /\ slept = NewTaskState(batch, <<>>)
  /\ skel \in {<<>>} \cup {(FanoutHashPath :> c) : c \in {IndexContent, <<1, 2>>, <<1>>}}
  /\ mirror \in {<<>>, (FanoutCanonical :> IndexContent)}

NextBatch ==
  \/ DownloadFileEnter
  \/ DownloadFileTry
  \/ DownloadBatchDone

SpecBatch == InitBatch /\ [][NextBatch]_vars

(***************************************************************************)
(* SpecPromote: _copy_skel_to_mirror on a disk with inodes.  Every call of *)
(* _copy_file is one step; whether os.link works between the two trees and *)
(* whether shutil.copy2 raises is the environment's choice.                *)
(***************************************************************************)
PromoRelease == Url(<<"r", "d", "Release">>)
PromoIndex == Url(<<"r", "d", "Packages">>)

\* a path under mirror_path that no URL of the run stands for
PromoOther == <<"r", "old", "Release">>

Modes == {"644", "600"}

\* the bytes seen through the directory entries of a tree
View(dir, table) == [path \in DOMAIN dir |-> table[dir[path]].bytes]

\* the inode number of a new file
FreshIno(table) == Len(table) + 1

\* mutant: a comparison that never finds the files identical
SameStatNever(src, dst) == FALSE

\* source_stat.st_size == dest_stat.st_size and st_mtime and st_mode equal
SameStat(src, dst) ==
  Len(src.bytes) = Len(dst.bytes) /\ src.mtime = dst.mtime /\ src.mode = dst.mode

\* mutant: a comparison that never finds a difference
FilesDifferNever(src, dst) == FALSE

\* files_differ(): the sizes differ or some chunk differs
FilesDiffer(src, dst) == Len(src.bytes) # Len(dst.bytes) \/ src.bytes # dst.bytes

\* what shutil.copy2 can do: copy bytes and stat, raise before it opened the
\* destination, or raise after it opened (truncated or created) it
Copy2Outcomes == {"ok", "raise_before_open", "raise_after_open"}

\* _copy_file(source, dest) for source under skel_path and dest under
\* mirror_path, on fs = [inodes, skel_ino, mirror_ino]
CopyFileOnDisk(fs, source, dest, link_ok, copy2) ==
  IF source \notin DOMAIN fs.skel_ino THEN [fs |-> fs, outcome |-> "no_source"]
  ELSE
    LET src_ino == fs.skel_ino[source]
        src == fs.inodes[src_ino]
        exists == dest \in DOMAIN fs.mirror_ino
        dst == fs.inodes[fs.mirror_ino[dest]]
    IN
    IF exists /\ SameStat(src, dst) THEN [fs |-> fs, outcome |-> "skipped"]
    ELSE
      LET unlinked == exists /\ config.unlink /\ FilesDiffer(src, dst)
          dir == IF unlinked
                 THEN [q \in DOMAIN fs.mirror_ino \ {dest} |-> fs.mirror_ino[q]]
                 ELSE fs.mirror_ino
          there == dest \in DOMAIN dir
          dest_ino == IF there THEN dir[dest] ELSE FreshIno(fs.inodes)
          written(file) ==
            IF there THEN [fs.inodes EXCEPT ![dest_ino] = file]
            ELSE Append(fs.inodes, file)
      IN
      IF ~there /\ link_ok
      THEN [fs |-> [fs EXCEPT !.mirror_ino = (dest :> src_ino) @@ dir],
            outcome |-> "linked"]
      ELSE IF copy2 = "ok"
      THEN [fs |-> [fs EXCEPT !.inodes = written(src),
                              !.mirror_ino = (dest :> dest_ino) @@ dir],
            outcome |-> "copied"]
      ELSE IF copy2 = "raise_after_open"
      THEN [fs |-> [fs EXCEPT
                      !.inodes = written([bytes |-> <<>>, mtime |-> Now,
                                          mode |-> IF there THEN dst.mode ELSE "644"]),
                      !.mirror_ino = (dest :> dest_ino) @@ dir],
            outcome |-> "raised"]
      ELSE [fs |-> [fs EXCEPT !.mirror_ino = dir], outcome |-> "raised"]

\* the calls of _copy_file that _copy_skel_to_mirror makes, in order: for
\* every URL the canonical file, then the files of hashsum_to_files[canonical]
RECURSIVE PromotionPlan(_)
PromotionPlan(urls) ==
  IF urls = <<>> THEN <<>>
  ELSE LET canonical == SanitizeUri(Head(urls))
           targets == DictGet(hashsum_to_files, canonical)
       IN <<[source |-> canonical, dest |-> canonical]>>
          \o [i \in 1..Len(targets) |-> [source |-> canonical, dest |-> targets[i]]]
          \o PromotionPlan(Tail(urls))

Disk == [inodes |-> inodes, skel_ino |-> skel_ino, mirror_ino |-> mirror_ino]

\* the files the mirror can hold for the Release before promotion: none, the
\* link an earlier promotion made, or a file of its own; then another path
\* may be a second link to that file
InitDisk ==
  \E staged \in BOOLEAN, own \in BOOLEAN, linked \in BOOLEAN, other \in BOOLEAN,
     bytes \in {<<1, 1>>, <<1, 2>>, <<1>>}, mtime \in {1, 2}, mode \in Modes :
    /\ linked => staged /\ ~own
    /\ other => own
    /\ ~own => bytes = <<1, 1>> /\ mtime = 1 /\ mode = "644"
    /\ inodes = <<[bytes |-> <<1, 1>>, mtime |-> 2, mode |-> "644"],
                  [bytes |-> <<2>>, mtime |-> 2, mode |-> "644"],
                  [bytes |-> bytes, mtime |-> mtime, mode |-> mode]>>
    /\ skel_ino = (IF staged THEN (SanitizeUri(PromoRelease) :> 1) ELSE <<>>)
                  @@ (SanitizeUri(PromoIndex) :> 2)
    /\ mirror_ino = (IF own THEN (SanitizeUri(PromoRelease) :> 3)
                     ELSE IF linked THEN (SanitizeUri(PromoRelease) :> 1)
                     ELSE <<>>)
                    @@ (IF other THEN (PromoOther :> 3) ELSE <<>>)

InitPromote ==
  /\ InitNoPaths
  /\ InitLock
  /\ InitNoUri
  /\ InitNoParse
  /\ InitNoDiff
  /\ config \in {[DefaultConfig EXCEPT !.unlink = b] : b \in BOOLEAN}
  /\ config_file = config
  /\ flat = TRUE
  /\ upstream = <<>>
  /\ release_data = NoReleaseData
  /\ star_packages = <<>>
  /\ planned = NoPlan
  /\ rpc = "copy_skel_to_mirror"
  /\ run_exc = "none"
  /\ semaphore = DefaultNthreads
  /\ release_urls = <<PromoRelease>>
  /\ index_urls \in {<<>>, <<PromoRelease>>, <<PromoIndex>>}
  /\ local_urls = index_urls
  /\ stage_log = <<>>
  /\ download_queue = <<>>
  /\ hashsum_to_files = <<>>
  /\ file_to_hashsums = <<>>
  /\ skip_clean = {}
  /\ metadata_checksums = <<>>
  /\ batch = <<>>
  /\ batch_stage = "none"
  /\ progress = NewProgress(<<>>)
  /\ tpc = <<>>
  /\ attempt = <<>>
  /\ headers = <<>>
  /\ result = <<>>
  /\ gets = <<>>
  /\ lastTry = <<>>
  /\ slept = <<>>
  /\ InitDisk
  /\ skel = View(skel_ino, inodes)
  /\ mirror = View(mirror_ino, inodes)
  /\ promo_log = <<>>

\* the next await self._copy_file(source, dest) of _copy_skel_to_mirror; an
\* exception of copy2 leaves _copy_file, _copy_skel_to_mirror and run()'s try
\* block
CopyFileCall ==
  /\ rpc = "copy_skel_to_mirror"
  /\ Len(promo_log) < Len(PromotionPlan(release_urls \o index_urls))
  /\ \E link_ok \in BOOLEAN, copy2 \in Copy2Outcomes :
       LET call == PromotionPlan(release_urls \o index_urls)[Len(promo_log) + 1]
           done == CopyFileOnDisk(Disk, call.source, call.dest, link_ok, copy2)
       IN /\ inodes' = done.fs.inodes
          /\ skel_ino' = done.fs.skel_ino
          /\ mirror_ino' = done.fs.mirror_ino
          /\ skel' = View(done.fs.skel_ino, done.fs.inodes)
          /\ mirror' = View(done.fs.mirror_ino, done.fs.inodes)
          /\ promo_log' = Append(promo_log, [source |-> call.source, dest |-> call.dest,
                                             outcome |-> done.outcome])
          /\ IF done.outcome = "raised"
             THEN run_exc' = "OSError" /\ rpc' = "cleanup"
             ELSE UNCHANGED <<run_exc, rpc>>
  /\ UNCHANGED <<config, envVars, semaphore, tableVars, batch, batch_stage, progress,
                 taskVars, lockVars, uriVars, parseVars, diffVars, pathVars>>

\* _copy_skel_to_mirror returns
CopySkelToMirrorReturns ==
  /\ rpc = "copy_skel_to_mirror"
  /\ Len(promo_log) = Len(PromotionPlan(release_urls \o index_urls))
  /\ stage_log' = Append(stage_log, "copy_skel_to_mirror")
  /\ rpc' = "generate_diffs"
  /\ UNCHANGED <<config, envVars, run_exc, semaphore, release_urls, index_urls,
                 local_urls, download_queue, hashsum_to_files, file_to_hashsums,
                 skip_clean, metadata_checksums, batch, batch_stage, progress,
                 taskVars, skel, mirror, lockVars, unitVars>>

NextPromote ==
  \/ CopyFileCall
  \/ CopySkelToMirrorReturns
  \/ Cleanup

SpecPromote == InitPromote /\ [][NextPromote]_vars

(***************************************************************************)
(* SpecDiff: _generate_diffs with diffs enabled, for a download queue of   *)
(* up to MaxDiffTasks plain tasks whose files are in mirror/.  One pass of *)
(* the loop over the queue is one step; the rewrite of file_versions.json  *)
(* is the open, the writes of json.dump that reach the disk, and the       *)
(* close.  The process can be killed between any two steps.                *)
(***************************************************************************)
DiffUrls == {Url(<<"r", "pool", "a.deb">>), Url(<<"r", "pool", "b.deb">>)}

\* the bytes of the files in mirror/ and of their earlier versions
NewBytes == <<1, 1, 1, 1>>
OldBytes == <<1, 2>>

\* the sizes of the diff an external tool can write
DiffSizes == {1, 2, 3}

DiffAlgorithms == {"xdelta3", "bsdiff", "rsync"}

\* the calls of _add_url_to_download that built the queue
DiffPlans ==
  UNION {[1..n -> [url : DiffUrls, size : {Len(NewBytes)}, strongest_hash : {"None"},
                   hash_type : {"None"}, hashsum : {NoHash}]] : n \in 1..MaxDiffTasks}

DiffCanonical(url) == SanitizeUri(RemoveDoubleSlashes(url))

\* a record of the version database
FileVersion(path, size, bytes) ==
  [path |-> path, size |-> size, hash |-> Hash("SHA256", bytes)]

\* diff_storage_path / f"{task.canonical_path}.diff"
DiffPath(canonical_path) ==
  [i \in 1..Len(canonical_path) |->
     IF i = Len(canonical_path) THEN canonical_path[i] \o ".diff" ELSE canonical_path[i]]

\* old_versions.get(path) on the records of a document, and whether there
\* is one
HasVersion(records, path) == \E i \in 1..Len(records) : records[i].path = path
GetVersion(records, path) ==
  records[CHOOSE i \in 1..Len(records) : records[i].path = path]

\* new_versions[path] = record
PutVersion(records, record) ==
  IF HasVersion(records, record.path)
  THEN [i \in 1..Len(records) |->
          IF records[i].path = record.path THEN record ELSE records[i]]
  ELSE Append(records, record)

\* what subprocess.run can do: the program is not found, or it ran, ended
\* with a return code and wrote a file of some size at the diff path or,
\* when it failed, possibly none
ToolRuns ==
  IF ~tool_installed
  THEN {[found |-> FALSE, returncode |-> 127, wrote |-> FALSE, size |-> 0]}
  ELSE {r \in [found : {TRUE}, returncode : {0, 1}, wrote : BOOLEAN, size : DiffSizes] :
          /\ r.returncode = 0 => r.wrote
          /\ ~r.wrote => r.size = 1}

\* diff_size < new_size * self.config.max_diff_size_ratio, the ratio being
\* in percent
SmallEnough(diff_size, new_size) ==
  diff_size * 100 < new_size * config.max_diff_size_ratio

\* _create_diff(old_file, new_file, diff_path) given what subprocess.run
\* does: the tree under diff_storage_path afterwards and the value returned
CreateDiff(files, diff_path, new_size, run) ==
  LET after == IF run.found /\ run.wrote THEN WriteFile(files, diff_path, run.size)
               ELSE files
  IN
  IF config.diff_algorithm \notin DiffAlgorithms THEN [files |-> files, ret |-> FALSE]
  ELSE IF ~run.found THEN [files |-> files, ret |-> FALSE]
  ELSE IF config.diff_algorithm = "rsync"
       THEN [files |-> after, ret |-> run.returncode = 0]
  ELSE IF run.returncode = 0
       THEN IF SmallEnough(after[diff_path], new_size)
            THEN [files |-> after, ret |-> TRUE]
            ELSE [files |-> Unlink(after, diff_path), ret |-> FALSE]
  ELSE [files |-> after, ret |-> FALSE]

\* the documents var/file_versions.json can hold before the run
OldVersionFiles ==
  LET a == DiffCanonical(Url(<<"r", "pool", "a.deb">>))
      b == DiffCanonical(Url(<<"r", "pool", "b.deb">>))
      doc(records) == [exists |-> TRUE, records |-> records, complete |-> TRUE]
  IN {NoVersionsFile,
      doc(<<FileVersion(a, Len(NewBytes), NewBytes)>>),
      doc(<<FileVersion(a, Len(OldBytes), OldBytes)>>),
      doc(<<FileVersion(a, Len(OldBytes), OldBytes),
            FileVersion(b, Len(OldBytes), OldBytes)>>)}

InitDiff ==
  /\ InitNoPaths
  /\ InitLock
  /\ InitNoUri
  /\ InitNoParse
  /\ InitNoPromo
  /\ config \in {[DefaultConfig EXCEPT !.diff_algorithm = a] : a \in DiffAlgorithms}
  /\ config_file = config
  /\ flat = FALSE
  /\ upstream = <<>>
  /\ release_data = NoReleaseData
  /\ star_packages = <<>>
  /\ planned = NoPlan
  /\ rpc = "generate_diffs"
  /\ run_exc = "none"
  /\ semaphore = DefaultNthreads
  /\ release_urls = <<>>
  /\ index_urls = <<>>
  /\ local_urls = <<>>
  /\ stage_log = <<>>
  /\ metadata_checksums = <<>>
  /\ \E plan \in DiffPlans :
       LET q == PlanAll(NoTables, plan)
       IN /\ download_queue = q.download_queue
          /\ hashsum_to_files = q.hashsum_to_files
          /\ file_to_hashsums = q.file_to_hashsums
          /\ skip_clean = q.skip_clean
  /\ batch = <<>>
  /\ batch_stage = "none"
  /\ progress = NewProgress(<<>>)
  /\ tpc = <<>>
  /\ attempt = <<>>
  /\ headers = <<>>
  /\ result = <<>>
  /\ gets = <<>>
  /\ lastTry = <<>>
  /\ slept = <<>>
  /\ skel = <<>>
  /\ mirror = [path \in {DiffCanonical(u) : u \in DiffUrls} |-> NewBytes]
  /\ tool_installed \in BOOLEAN
  /\ diff_files = <<>>
  /\ versions_file \in OldVersionFiles
  /\ new_versions = <<>>
  /\ diff_log = <<>>
  /\ diff_pos = 0
  /\ dpc = "loop"

\* one pass of the loop "for task in self.download_queue" (old_versions is
\* what the file held when _generate_diffs began; the file is not written
\* before the loop has ended)
DiffTask ==
  /\ rpc = "generate_diffs"
  /\ dpc = "loop"
  /\ diff_pos < Len(download_queue)
  /\ diff_pos' = diff_pos + 1
  /\ LET task == download_queue[diff_pos + 1]
         path == task.canonical_path
         old_versions == IF versions_file.exists THEN versions_file.records ELSE <<>>
         current_hash == Hash("SHA256", mirror[path])
         changed == /\ HasVersion(old_versions, path)
                    /\ GetVersion(old_versions, path).hash # current_hash
                    /\ Exists(mirror, GetVersion(old_versions, path).path)
     IN
     IF path = NoPath \/ ~Exists(mirror, path)
     THEN UNCHANGED <<diff_files, diff_log, new_versions>>
     ELSE /\ new_versions' =
               PutVersion(new_versions,
                          [path |-> path, size |-> task.size, hash |-> current_hash])
          /\ IF ~changed THEN UNCHANGED <<diff_files, diff_log>>
             ELSE \E run \in ToolRuns :
                    LET made == CreateDiff(diff_files, DiffPath(path),
                                           Len(mirror[path]), run)
                    IN /\ diff_files' = made.files
                       /\ diff_log' =
                            Append(diff_log,
                                   [diff_path |-> DiffPath(path),
                                    new_size |-> Len(mirror[path]),
                                    found |-> run.found,
                                    returncode |-> run.returncode,
                                    size |-> run.size, ret |-> made.ret])
  /\ UNCHANGED <<tool_installed, versions_file, dpc, runVarsButUnits, lockVars,
                 uriVars, parseVars, promoVars, pathVars>>

\* the loop has ended; write_versions: open(versions_file, 'w') creates or
\* truncates the file
WriteVersionsOpen ==
  /\ rpc = "generate_diffs"
  /\ dpc = "loop"
  /\ diff_pos = Len(download_queue)
  /\ versions_file' = [exists |-> TRUE, records |-> <<>>, complete |-> FALSE]
  /\ dpc' = "dump"
  /\ UNCHANGED <<tool_installed, diff_files, new_versions, diff_log, diff_pos,
                 runVarsButUnits, lockVars, uriVars, parseVars, promoVars, pathVars>>

\* json.dump(new_versions, f, indent=2): the text of one more record reaches
\* the file
WriteVersionsDump ==
  /\ rpc = "generate_diffs"
  /\ dpc = "dump"
  /\ Len(versions_file.records) < Len(new_versions)
  /\ versions_file' =
       [versions_file EXCEPT
          !.records = Append(@, new_versions[Len(versions_file.records) + 1])]
  /\ UNCHANGED <<tool_installed, diff_files, new_versions, diff_log, diff_pos, dpc,
                 runVarsButUnits, lockVars, uriVars, parseVars, promoVars, pathVars>>

\* the with block closes the file with the whole document written;
\* _generate_diffs returns
WriteVersionsClose ==
  /\ rpc = "generate_diffs"
  /\ dpc = "dump"
  /\ Len(versions_file.records) = Len(new_versions)
  /\ versions_file' = [versions_file EXCEPT !.complete = TRUE]
  /\ dpc' = "done"
  /\ rpc' = "cleanup_old_files"
  /\ stage_log' = Append(stage_log, "generate_diffs")
  /\ UNCHANGED <<tool_installed, diff_files, new_versions, diff_log, diff_pos,
                 config, envVars, run_exc, semaphore, release_urls, index_urls,
                 local_urls, download_queue, hashsum_to_files, file_to_hashsums,
                 skip_clean, metadata_checksums, batch, batch_stage, progress,
                 taskVars, skel, mirror, lockVars, uriVars, parseVars, promoVars, pathVars>>

\* SIGKILL or power loss: the process ends where it stands
DiffKill ==
  /\ rpc = "generate_diffs"
  /\ dpc \in {"loop", "dump"}
  /\ dpc' = "killed"
  /\ UNCHANGED <<tool_installed, diff_files, versions_file, new_versions, diff_log,
                 diff_pos, runVarsButUnits, lockVars, uriVars, parseVars, promoVars, pathVars>>

NextDiff ==
  \/ DiffTask
  \/ WriteVersionsOpen
  \/ WriteVersionsDump
  \/ WriteVersionsClose
  \/ DiffKill

SpecDiff == InitDiff /\ [][NextDiff]_vars

(***************************************************************************)
(* Claims about the run lifecycle (checked under SpecLock / FairLock)      *)
(***************************************************************************)

\* C1: under every interleaving of the initialize steps of engines sharing
\* one var/ directory, at most one engine is past lock acquisition at a time.
C1_AtMostOnePastLock ==
  Cardinality({e \in Engines : epc[e] \in PastLock}) <= 1

\* C2: when an engine has ended with the already-running error while another
\* engine that acquired the lock is still running, the failed engine issued no
\* HTTP request and the lock file still exists.
C2_SecondLeavesLockIntact ==
  \A a \in Engines, b \in Engines :
    (a # b /\ acquired[a] /\ epc[a] \in PastLock
       /\ epc[b] = "done" /\ err[b] = "AlreadyRunning")
    => (~http[b] /\ lock)

C4_RestartAfterKillAcquires ==
  \A e \in Engines : afterKill[e] => err[e] # "AlreadyRunning"

(***************************************************************************)
(* Claims about download_file (checked under SpecFetch)                    *)
(***************************************************************************)

\* C8: download_file issues at most retry_attempts GETs for a task; a try
\* that passes post-verification makes it return True at once; when its
\* latest try failed and it has returned, it returned False after exactly
\* retry_attempts passes of the loop.
C8_RetryBudget ==
  \A t \in Tasks :
    /\ gets[t] <= config.retry_attempts
    /\ lastTry[t] = "ok" => (tpc[t] = "returned" /\ result[t] = "True")
    /\ (tpc[t] = "returned" /\ lastTry[t] \notin {"none", "ok"})
         => (result[t] = "False" /\ attempt[t] + 1 = config.retry_attempts)

\* C8 witness: a task that returned False after retry_attempts >= 2 GETs.
C8_Witness ==
  \E t \in Tasks :
    /\ tpc[t] = "returned" /\ result[t] = "False"
    /\ config.retry_attempts >= 2
    /\ gets[t] = config.retry_attempts

\* C9: a try that ended with a permanent HTTP status (4xx other than 408 and
\* 429) is followed by no other try, the task has failed; a task that failed
\* on a transient error was tried retry_attempts times.
C9_PermanentNotRetried ==
  \A t \in Tasks :
    /\ lastTry[t] = "permanent" => (tpc[t] = "returned" /\ result[t] = "False")
    /\ (lastTry[t] = "transient" /\ tpc[t] = "returned")
         => attempt[t] + 1 = config.retry_attempts

(***************************************************************************)
(* Claims about the pipeline (checked under SpecRun)                       *)
(***************************************************************************)

\* C5: the stage functions are called in the order download_releases,
\* download_metadata, process_indexes, download_packages, copy_skel_to_mirror;
\* downloads run only inside the batch of the stage function called last and
\* carry its stage tag; whenever run() stands outside a batch every download
\* task has returned; mirror/ is written only from promotion on.
C5_StageBarrier ==
  /\ \A i \in 1..Len(stage_log) :
       /\ StageIndex(stage_log[i]) >= i
       /\ StageIndex(stage_log[i]) <= StageIndex("copy_skel_to_mirror")
            => stage_log[i] = StageOrder[i]
       /\ \A j \in 1..(i - 1) : StageIndex(stage_log[j]) < StageIndex(stage_log[i])
  /\ ~BatchRunning => \A t \in Tasks : tpc[t] = "returned"
  /\ BatchRunning =>
       /\ batch_stage = CASE rpc = "release_batch" -> "release"
                          [] rpc = "index_batch" -> "index"
                          [] rpc = "archive_batch" -> "archive"
       /\ stage_log[Len(stage_log)] =
            CASE rpc = "release_batch" -> "download_releases"
              [] rpc = "index_batch" -> "download_metadata"
              [] rpc = "archive_batch" -> "download_packages"
       /\ \A t \in Tasks : batch[t].stage = batch_stage
  /\ mirror # <<>> => rpc \in {"generate_diffs", "cleanup_old_files",
                               "run_postmirror", "cleanup", "done"}

\* C5 witness: promotion has run, after an archive batch with at least one
\* task that followed the release batch.
C5_Witness ==
  /\ rpc = "generate_diffs"
  /\ batch_stage = "archive"
  /\ Len(batch) >= 1
  /\ mirror # <<>>

C7_InFlightWithinNthreads ==
  Cardinality({t \in Tasks : tpc[t] = "ready"}) <= config_file.nthreads

C11_CorruptFileDeleted ==
  \A t \in Tasks :
    (/\ tpc[t] = "returned" /\ result[t] = "False"
     /\ lastTry[t] \in {"size_mismatch", "checksum_mismatch"})
    => ~Exists(skel, LocalPath(batch[t]))

\* C12: no try of a task with size 0 ends in a size mismatch; a try of a
\* task with size > 0 passes only with a staged file of that length.
C12_SizeEnforcedOnlyWhenDeclared ==
  \A t \in Tasks :
    /\ batch[t].size = 0 => lastTry[t] # "size_mismatch"
    /\ (batch[t].size > 0 /\ lastTry[t] = "ok")
         => Len(skel[LocalPath(batch[t])]) = batch[t].size

\* C13: with verify_checksums on, a task with a digest has returned True only
\* with a file at its local path whose digest under hash_type is hashsum.
C13_OkOnlyWithDigest ==
  \A t \in Tasks :
    (result[t] = "True" /\ batch[t].hashsum # NoHash /\ config.verify_checksums)
    => /\ Exists(skel, LocalPath(batch[t]))
       /\ Hash(batch[t].hash_type, skel[LocalPath(batch[t])]) = batch[t].hashsum

\* C13 witness: a task with a digest returned True after a transfer, with
\* verification on.
C13_Witness ==
  \E t \in Tasks :
    /\ result[t] = "True" /\ gets[t] >= 1
    /\ batch[t].hashsum # NoHash /\ config.verify_checksums

\* the file in mirror/ under the task's canonical path passes: by its digest
\* when one is declared and verification is on, else by its declared size
MirrorCopyPasses(task) ==
  /\ task.canonical_path # NoPath
  /\ Exists(mirror, task.canonical_path)
  /\ IF task.hashsum # NoHash /\ config.verify_checksums
     THEN Hash(task.hash_type, mirror[task.canonical_path]) = task.hashsum
     ELSE task.size > 0 /\ Len(mirror[task.canonical_path]) = task.size

C15_ResumeAppends ==
  [][\A t \in Tasks :
       LET task == batch[t]
           local_path == LocalPath(task)
       IN
       /\ (tpc[t] = "created" /\ tpc'[t] = "ready") =>
            /\ (/\ config.resume_partial_downloads
                /\ Exists(skel, local_path)
                /\ Len(skel[local_path]) < task.size)
               => headers'[t] = Len(skel[local_path])
            /\ ~config.resume_partial_downloads => headers'[t] = NoRange
       /\ (/\ tpc[t] = "ready" /\ gets'[t] = gets[t] + 1
           /\ lastTry'[t] \in {"ok", "size_mismatch", "checksum_mismatch"}) =>
            IF headers[t] # NoRange
            THEN skel'[local_path] =
                   skel[local_path] \o SubSeq(upstream[task.url], headers[t] + 1,
                                              Len(upstream[task.url]))
            ELSE skel'[local_path] = upstream[task.url]
    ]_vars

\* C15 witness: a task resumed from a staged file of length >= 1 and
\* returned True after one GET.
C15_Witness ==
  \E t \in Tasks :
    /\ headers[t] >= 1 /\ gets[t] = 1 /\ result[t] = "True"
    /\ config.resume_partial_downloads

(***************************************************************************)
(* Claims about promotion (checked under SpecRun)                          *)
(***************************************************************************)

\* C16: after a run that ended without exception, every canonical path in
\* skip_clean that a queued task stands for exists in mirror/ and matches
\* the task's digest, or its size when it has no digest.
C16_SkipCleanInMirror ==
  (rpc = "done" /\ run_exc = "none") =>
    \A k \in 1..Len(download_queue) :
      LET task == download_queue[k]
          C == task.canonical_path
      IN C \in skip_clean =>
           /\ Exists(mirror, C)
           /\ IF task.hashsum # NoHash
              THEN Hash(task.hash_type, mirror[C]) = task.hashsum
              ELSE Len(mirror[C]) = task.size

\* C17: after a run that ended without exception, every hash path of
\* hashsum_to_files exists in mirror/, and so does every canonical path of
\* its list, with the same bytes.
C17_AliasesInMirror ==
  (rpc = "done" /\ run_exc = "none") =>
    \A i \in 1..Len(hashsum_to_files) :
      /\ Exists(mirror, hashsum_to_files[i].key)
      /\ \A j \in 1..Len(hashsum_to_files[i].files) :
           /\ Exists(mirror, hashsum_to_files[i].files[j])
           /\ mirror[hashsum_to_files[i].files[j]] = mirror[hashsum_to_files[i].key]

\* C18: on a mirror that was empty at the start, a file exists in mirror/
\* under the canonical path of a task of the run's last batch only if that
\* task returned True.
C18_OnlyOkPromoted ==
  \A t \in Tasks :
    Exists(mirror, batch[t].canonical_path) => result[t] = "True"

(***************************************************************************)
(* Claims about _add_url_to_download (checked under SpecPlan)              *)
(***************************************************************************)

\* C20: a call with a digest and a strongest algorithm appends exactly one
\* task if the file's algorithm is the strongest one: its URL is
\* <dirname of the URL>/by-hash/<algo>/<digest>, its hash_path the same under
\* the canonical path; the canonical path is appended to
\* hashsum_to_files[hash_path] and the hash path is in skip_clean.  Otherwise
\* the queue is unchanged and the hash path is appended to
\* file_to_hashsums[canonical].  Without digest or strongest algorithm one
\* plain task for the URL, staged at the canonical path, is appended.
C20_PlanByStrongestHash ==
  [][rpc = "plan" =>
       LET a == planned'
           canonical == SanitizeUri(a.url)
           hash_dir == <<"by-hash", a.hash_type, a.hashsum>>
           hash_url == Dirname(a.url) \o hash_dir
           hash_path == Dirname(canonical) \o hash_dir
       IN
       IF a.hashsum # NoHash /\ a.strongest_hash # "None"
       THEN IF a.hash_type = a.strongest_hash
            THEN /\ download_queue' =
                      Append(download_queue,
                             DownloadTask(hash_url, a.size, a.hash_type, a.hashsum,
                                          canonical, hash_path, "archive"))
                 /\ DictGet(hashsum_to_files', hash_path)
                      = Append(DictGet(hashsum_to_files, hash_path), canonical)
                 /\ hash_path \in skip_clean'
                 /\ file_to_hashsums' = file_to_hashsums
            ELSE /\ download_queue' = download_queue
                 /\ a.hash_type # "None" =>
                      DictGet(file_to_hashsums', canonical)
                        = Append(DictGet(file_to_hashsums, canonical), hash_path)
                 /\ hashsum_to_files' = hashsum_to_files
       ELSE /\ download_queue' =
                 Append(download_queue,
                        DownloadTask(a.url, a.size, "None", NoHash, canonical,
                                     NoPath, "archive"))
            /\ hashsum_to_files' = hashsum_to_files
            /\ file_to_hashsums' = file_to_hashsums
    ]_vars

(***************************************************************************)
(* Claims about _process_packages_index (checked under SpecIndex)          *)
(***************************************************************************)

C26_SanitizeIdempotent ==
  uri_calls = <<"_sanitize_uri", "_sanitize_uri">> => uri_text = SanitizeUri(uri_arg)

\* C27: for a URL scheme://rest, what _remove_double_slashes returns still
\* starts with scheme:// and has no empty segment between two slashes
\* anywhere else.
C27_CollapseKeepsScheme ==
  (uri_calls = <<"_remove_double_slashes">> /\ HasSchemePrefix(uri_arg)) =>
    /\ HasSchemePrefix(uri_text)
    /\ \A i \in 4..(Len(uri_text) - 1) :
         ~(uri_text[i] = "" /\ uri_text[i - 1] # At /\ uri_text[i + 1] # At)

(***************************************************************************)
(* Claims about _parse_release_content (checked under SpecParse)           *)
(***************************************************************************)

\* the tuple lines of the document that stand in a hash block: after the
\* block's header, with only indented or empty lines in between
BlockTuples ==
  {k \in 1..Len(release_content) :
     /\ \E hash_type \in {"SHA256", "MD5Sum"} : release_content[k] = TupleLine(hash_type)
     /\ \E h \in 1..(k - 1) :
          /\ HeaderOf(release_content[h]) # "None"
          /\ \A j \in (h + 1)..(k - 1) :
               release_content[j] = <<>> \/ StartsWithBlank(release_content[j])}

\* the header of the block the tuple line k stands in
BlockOf(k) ==
  HeaderOf(release_content[
    CHOOSE h \in 1..(k - 1) :
      /\ HeaderOf(release_content[h]) # "None"
      /\ \A j \in (h + 1)..(k - 1) : HeaderOf(release_content[j]) = "None"])

\* C21: the parser's file list has an entry for every tuple line of a hash
\* block, binding the file name to the line's digest and size and to the
\* block's algorithm; it is not empty when the document has such a line.
C21_ParserBindsTuples ==
  rpc = "parsed" =>
    /\ \A k \in BlockTuples :
         \E i \in 1..Len(release_data.files) :
           release_data.files[i] =
             [filename |-> <<release_content[k][6]>>,
              size |-> Len(IndexContent),
              hash_type |-> BlockOf(k),
              hashsum |-> release_content[k][2]]
    /\ BlockTuples # {} => release_data.files # <<>>

(***************************************************************************)
(* Claims about the retry loop's delays (checked under SpecFetch)          *)
(***************************************************************************)

C29_FanOutAfterDrain ==
  rpc = "copy_skel_to_mirror" =>
    /\ \A t \in Tasks : tpc[t] = "returned"
    /\ \A i \in 1..Len(hashsum_to_files) :
         LET H == hashsum_to_files[i].key
             canonicals == hashsum_to_files[i].files
         IN Exists(skel, H) =>
              \A j \in 1..Len(canonicals) :
                /\ Exists(skel, canonicals[j])
                /\ skel[canonicals[j]] = skel[H]
                /\ LET others == DictGet(file_to_hashsums, canonicals[j])
                   IN \A k \in 1..Len(others) :
                        Exists(skel, others[k]) /\ skel[others[k]] = skel[H]

\* C29 witness: the fan-out has run for a hash path shared by two canonical
\* paths, one of them with a weaker-algorithm hash path, whose staged file
\* holds the declared content.
C29_Witness ==
  /\ rpc = "copy_skel_to_mirror"
  /\ \E i \in 1..Len(hashsum_to_files) :
       /\ Len(hashsum_to_files[i].files) = 2
       /\ Exists(skel, hashsum_to_files[i].key)
       /\ skel[hashsum_to_files[i].key] = IndexContent
       /\ \E j \in 1..2 : DictGet(file_to_hashsums, hashsum_to_files[i].files[j]) # <<>>

(***************************************************************************)
(* Claims about promotion on disk (checked under SpecPromote)              *)
(***************************************************************************)

\* C25: when a call of _copy_file has raised, promotion still goes on or has
\* made its calls for all release and index files, and the run has not left
\* its try block with the exception.
C25_PromotionErrorIsLocal ==
  (\E k \in 1..Len(promo_log) : promo_log[k].outcome = "raised") =>
    /\ run_exc = "none"
    /\ \/ rpc = "copy_skel_to_mirror"
       \/ Len(promo_log) = Len(PromotionPlan(release_urls \o index_urls))

\* C30: a call of _copy_file whose destination exists with the size, mtime
\* and mode of its source changes no inode and no directory entry; a call
\* that follows a call for the same source and destination that linked or
\* copied changes nothing either.
C30_IdenticalIsSkipped ==
  [][(rpc = "copy_skel_to_mirror" /\ promo_log' # promo_log) =>
       LET n == Len(promo_log)
           call == promo_log'[n + 1]
           identical ==
             /\ call.source \in DOMAIN skel_ino
             /\ call.dest \in DOMAIN mirror_ino
             /\ Len(inodes[skel_ino[call.source]].bytes)
                  = Len(inodes[mirror_ino[call.dest]].bytes)
             /\ inodes[skel_ino[call.source]].mtime = inodes[mirror_ino[call.dest]].mtime
             /\ inodes[skel_ino[call.source]].mode = inodes[mirror_ino[call.dest]].mode
           repeated ==
             /\ n >= 1
             /\ promo_log[n].source = call.source /\ promo_log[n].dest = call.dest
             /\ promo_log[n].outcome \in {"linked", "copied"}
       IN (identical \/ repeated) =>
            /\ inodes' = inodes /\ skel_ino' = skel_ino /\ mirror_ino' = mirror_ino
            /\ skel' = skel /\ mirror' = mirror
    ]_vars

\* C30 witness: the Release was promoted twice in a row: the first call
\* copied it, the second found the destination identical and skipped it.
C30_Witness ==
  /\ Len(promo_log) = 2
  /\ promo_log[1].dest = promo_log[2].dest
  /\ promo_log[1].outcome = "copied"
  /\ promo_log[2].outcome = "skipped"

\* C31: with unlink enabled, a call of _copy_file whose destination exists
\* with other bytes than its source leaves the old destination inode's bytes
\* as they were for every other path linked to it, and the destination entry
\* no longer names that inode.
C31_UnlinkKeepsOtherLinks ==
  [][(rpc = "copy_skel_to_mirror" /\ promo_log' # promo_log /\ config.unlink) =>
       LET call == promo_log'[Len(promo_log) + 1]
           differs ==
             /\ call.source \in DOMAIN skel_ino
             /\ call.dest \in DOMAIN mirror_ino
             /\ inodes[skel_ino[call.source]].bytes # inodes[mirror_ino[call.dest]].bytes
           others == {q \in DOMAIN mirror_ino \ {call.dest} :
                        mirror_ino[q] = mirror_ino[call.dest]}
       IN (differs /\ call.outcome # "skipped") =>
            /\ \A q \in others : q \in DOMAIN mirror' /\ mirror'[q] = mirror[q]
            /\ inodes'[mirror_ino[call.dest]] = inodes[mirror_ino[call.dest]]
            /\ call.dest \in DOMAIN mirror_ino' =>
                 mirror_ino'[call.dest] # mirror_ino[call.dest]
    ]_vars

\* C31 witness: with unlink enabled the Release was promoted over a file of
\* other bytes that a second path was linked to; the second path still shows
\* the old bytes.
C31_Witness ==
  /\ config.unlink
  /\ Len(promo_log) >= 1
  /\ promo_log[1].outcome \in {"linked", "copied"}
  /\ PromoOther \in DOMAIN mirror
  /\ promo_log[1].dest \in DOMAIN mirror
  /\ mirror[PromoOther] # mirror[promo_log[1].dest]
  /\ mirror_ino[PromoOther] # mirror_ino[promo_log[1].dest]

(***************************************************************************)
(* Claims about download_file's returns and requests (checked under        *)
(* SpecFetch)                                                              *)
(***************************************************************************)

\* C34: a download_file that has returned has returned True or False; the
\* tracker never counts more files than the batch has, and counts them all
\* once the batch has drained.
C34_TrackerUpdatedOnce ==
  /\ \A t \in Tasks : tpc[t] = "returned" => result[t] \in {"True", "False"}
  /\ progress.completed_files + progress.failed_files <= progress.total_files
  /\ BatchDrained =>
       progress.completed_files + progress.failed_files = progress.total_files

\* C35: a GET sent with a Range header asks from the length the staged file
\* has when the request is sent.
C35_RangeIsStagedLength ==
  [][\A t \in Tasks :
       (/\ tpc[t] = "ready"
        /\ gets'[t] = gets[t] + 1
        /\ headers[t] \notin {NoRange, Unbound}) =>
         /\ Exists(skel, LocalPath(batch[t]))
         /\ headers[t] = Len(skel[LocalPath(batch[t])])
    ]_vars

\* C36: a download_file that finds no passing mirror copy and a staged file
\* of the declared length that fails its digest (verification and resume
\* on) goes on to request the file without a Range header.
C36_FullLengthBadDigestRefetched ==
  [][\A t \in Tasks :
       LET task == batch[t]
           local_path == LocalPath(task)
       IN (/\ tpc[t] = "created" /\ tpc'[t] # "created"
           /\ ~MirrorCopyPasses(task)
           /\ config.resume_partial_downloads /\ config.verify_checksums
           /\ task.hashsum # NoHash
           /\ Exists(skel, local_path)
           /\ Len(skel[local_path]) = task.size
           /\ Hash(task.hash_type, skel[local_path]) # task.hashsum) =>
            headers'[t] = NoRange
    ]_vars

\* C37: when _copy_hashsum_files writes a canonical path of
\* hashsum_to_files, a task of the batch for that hash path has returned
\* True.  (Checked under SpecBatch.)
C37_FanOutOnlyOfOkTasks ==
  [][(rpc = "archive_batch" /\ rpc' # "archive_batch") =>
       \A i \in 1..Len(hashsum_to_files) :
         \A j \in 1..Len(hashsum_to_files[i].files) :
           LET canonical == hashsum_to_files[i].files[j] IN
           (/\ Exists(skel', canonical)
            /\ ~Exists(skel, canonical) \/ skel'[canonical] # skel[canonical]) =>
             \E t \in Tasks : /\ batch[t].hash_path = hashsum_to_files[i].key
                              /\ result[t] = "True"
    ]_vars

(***************************************************************************)
(* Claims about download_file after a promotion (checked under SpecRefetch)*)
(***************************************************************************)

\* C32: while download_file runs in a batch, no step changes the bytes of a
\* file under mirror/.
C32_FetchLeavesMirrorAlone ==
  [][BatchRunning => mirror' = mirror]_vars

(***************************************************************************)
(* Claims about _download_metadata (checked under SpecMeta)                *)
(***************************************************************************)

C22_DiffKeptOnlyIfSmall ==
  [][diff_log' # diff_log =>
       LET call == diff_log'[Len(diff_log')] IN
       Exists(diff_files', call.diff_path) =>
         /\ call.found /\ call.returncode = 0
         /\ call.size * 100 < call.new_size * config.max_diff_size_ratio
    ]_vars

\* C23: the diff tool is found missing at most once in a run, and no call
\* of it follows the one that found it missing.
C23_MissingToolReportedOnce ==
  \A k \in 1..Len(diff_log) : ~diff_log[k].found => k = Len(diff_log)

\* C24: at every point of _generate_diffs, killed or not, file_versions.json
\* is absent as before the run or holds a complete document.
C24_VersionsFileAtomic ==
  versions_file.exists => versions_file.complete

\* C39: the map _generate_diffs writes records every canonical path that
\* file_versions.json recorded when the rewrite begins.
C39_VersionsOnlyGrow ==
  [][(dpc = "loop" /\ dpc' = "dump") =>
       \A i \in 1..Len(versions_file.records) :
         HasVersion(new_versions, versions_file.records[i].path)
    ]_vars

(***************************************************************************)
(* Claims about the paths of initialize (checked under SpecVarPath)        *)
(***************************************************************************)

\* C40: the lock file an engine has created lies under the var_path its
\* configuration file names, and when the configuration files of the
\* engines name different var_path values, no engine ends with the
\* already-running error.
C40_LockUnderConfiguredVarPath ==
  /\ \A e \in Engines :
       acquired[e] => lock_path[e] = cfg_var_path[e] \o <<"apt-mirror.lock">>
  /\ (\A a \in Engines, b \in Engines : a # b => cfg_var_path[a] # cfg_var_path[b])
       => \A e \in Engines : err[e] # "AlreadyRunning"

====
